---- MODULE Spec2Model ----
(***************************************************************************)
(* A model of gitBahn's commit synthesis engine and watch-loop core.       *)
(*                                                                         *)
(* The module holds several specifications over one set of variables:      *)
(*   SpecLock   the repository lock file (src/core/lock.rs), several       *)
(*              processes running LockGuard::acquire step by step;         *)
(*   SpecWatch  the auto command in watch mode (src/commands/auto.rs),     *)
(*              and SpecWatchLive, the same with a fairly scheduled driver;*)
(*   SpecAuto   SpecWatch with the prompt loop and the single shot added; *)
(*   SpecApply  the apply loops of the commit command                      *)
(*              (src/commands/commit.rs);                                  *)
(*   SpecSend   send_message and its retries (src/core/ai.rs);             *)
(*   SpecMerge  merge_groups_to_target (gitbahn-mcp/src/main.rs);          *)
(*   SpecSpread parse_duration and generate_spread_timestamps              *)
(*              (src/commands/commit.rs);                                  *)
(*   SpecParse  parse_diff_into_hunks (src/core/git.rs);                   *)
(*   SpecChunk  parse_single_file_into_chunks (src/core/git.rs);           *)
(*   SpecSquash maybe_squash_commits (src/commands/auto.rs).               *)
(*   SpecWatcher the thread of FileWatcher::watch (src/core/watcher.rs);   *)
(*   SpecFlush  the content of queued commits (src/commands/auto.rs);     *)
(*   SpecSplit  parse_diff_hunks (gitbahn-mcp/src/main.rs);               *)
(*   SpecTimes  the commit times of a run of the commit command;           *)
(* Each specification pins the variables of the other parts.               *)
(***************************************************************************)
EXTENDS Integers, Sequences, FiniteSets, TLC

VARIABLES
  \* ---- lock file part (src/core/lock.rs)
  lockFile,    \* the file at repo_path/.bahn.lock: [exists, bytes]
  lpc,         \* per process: its position in LockGuard::acquire / Drop
  alive,       \* per process: whether the OS still runs it
  pid,         \* per process: the local `pid` parsed from the first line
  file,        \* per process: the local `file` handle ("none","live","orphan")
  \* ---- auto command, watch mode (src/commands/auto.rs)
  options,     \* AutoOptions: [mode, dry_run, max_commits, rewrite_history]
  wpc,         \* the position of `run` and of the watch loop it runs
  commit_count,          \* run_*_watch_mode local
  commits_since_squash,  \* run_*_watch_mode local (saturates at SquashThreshold)
  since_rewrite,         \* history: the commits the loop created since the last
                         \* squash that rewrote history (saturates likewise)
  old_count,             \* run_polling_watch_mode local
  deferred_commits,      \* run_defer_watch_mode local: its length
  batch,                 \* run_prompt_watch_mode local: batch.commits.len()
  selection,             \* the entry chosen in the closing dialogue, or "none"
  shutdown,              \* run_*_watch_mode local
  watching,    \* a FileWatcher thread has been started
  chan,        \* the mpsc channel rx: queued WatchEvents
  disconnected,\* the sender side of the channel is gone
  interrupted, \* an interrupt was delivered and not yet taken by ctrl_c()
  work,        \* the working tree differs from the index
  index,       \* the index differs from HEAD (staged changes)
  unpushed,    \* commits on HEAD that the upstream lacks
  unit,        \* the unit of work in progress: "none" or "staged"
  sm,          \* send_message: [state, attempt, caller]
  inFlight,    \* HTTP requests to the classifier sent and not yet answered
  result,      \* what send_message returned: "none", "ok", "err"
  called,      \* the classifier has been called at least once
  summary,     \* the closing summary line has been printed
  \* ---- commit command, apply loops (src/commands/commit.rs)
  strategy,    \* which run_*_commits runs: "atomic", "granular", "realistic"
  apc,         \* the position in that function
  planLen,     \* suggestions.len() / commit_plans.len()
  gi,          \* the 1-based index of the next group of the loop
  group,       \* the set of ids the group taken last named
  applied,     \* per unit: how often it passed the loop's filters (all groups)
  committed_chunks,  \* run_realistic_commits local
  file_contents,     \* run_realistic_commits local: per file, the chunk ids pushed
  tree,        \* per file: the working-tree content, as the units it holds
  indexc,      \* per file: the content staged in the index
  head,        \* per file: the content committed on HEAD
  created,     \* run_*_commits local
  outcome,     \* how the last iteration of the apply loop ended
  commit_time, \* <<author time, committer time>> of the commit created last
  \* ---- one call of AiClient::send_message (src/core/ai.rs)
  spc,         \* its position: "idle", "top", "await", "returned"
  attempt,     \* the loop variable of `for attempt in 0..=MAX_RETRIES`
  delay_ms,    \* send_message local
  last_error,  \* send_message local: <<>> (None) or <<response>>
  requests,    \* how many POSTs were sent
  sleeps,      \* the durations slept, in order
  responses,   \* the responses received, in order
  ret,         \* the returned Result
  calls,                \* send_message calls begun so far
  \* ---- merge_groups_to_target (src/gitbahn-mcp/src/main.rs)
  mpc,         \* its position: "idle", "entry", "loop", "returned", "panicked"
  input_groups,\* the argument `groups` as passed in
  target,      \* the argument `target`
  groups,      \* the local `groups`: a sequence of [files, line_count]
  \* generate_spread_timestamps and the --spread text it is called with
  tpc,                  \* position: "idle", "entry", "generate", "loop", "returned", "rejected"
  spread,               \* the --spread text
  start,                \* start_time, in seconds
  count,                \* the number of commits to schedule
  total_duration_secs,  \* what parse_duration returned
  ti,                   \* the loop index i
  current,              \* the local `current`
  timestamps,           \* the vector built and returned
  \* parse_diff_into_hunks
  ppc,                   \* position: "idle", "entry", "lines", "returned"
  diff,                  \* the diff text passed in
  lines_left,            \* what diff.lines() has still to yield
  hunks,                 \* the vector built and returned
  current_file,
  is_new_file,
  is_deleted,
  current_hunk_header,
  current_hunk_content,
  hunk_id,
  in_hunk,
  again,                 \* TRUE in the second call on the same text
  earlier,               \* what the first call returned
  \* parse_single_file_into_chunks and the per-language scanners
  cpc,                    \* position: "idle", "entry", "scan", "generic", "returned"
  ext,                    \* the extension of file_path
  total_lines,            \* lines.len()
  filler,                 \* the kind of the lines between the head and the tail of the file
  line_i,                 \* the loop index i
  current_section_start,  \* (in parse_generic_file: start)
  current_section_type,
  in_class,
  class_indent,
  brace_depth,
  chunks,                 \* the vector built and returned
  \* ---- one call of maybe_squash_commits (src/commands/auto.rs)
  qpc,            \* its position: "idle", "entry", "await", "returned"
  before,         \* the first-parent chain of HEAD when the call began
  history,        \* the first-parent chain of HEAD now, HEAD first: per commit
                  \* [pushed, side]
  squash_count,   \* the parameter `count`
  squash_dry_run, \* the parameter `dry_run`
  squash_ret,     \* what the call returned: "none", "ok", "err"
  \* ---- the FileWatcher thread (src/core/watcher.rs)
  fpc,         \* the thread: "idle", "recv" (waiting for a result),
               \* "handled" (a result taken and handled) or "ended"
  events,      \* the batch the debouncer collects and then reports
  sent,        \* the WatchEvents tx_clone sent for the result taken
  \* ---- queued commits and their flush (src/commands/auto.rs)
  xpc,         \* the session: "idle", "loop", "flush" or "done"
  fmode,       \* which loop runs: "prompt" or "defer"
  notified,    \* a FilesChanged batch waits on the channel
  worktree,    \* the changes of the working tree that HEAD lacks
  staged_changes,  \* those of them that the index holds
  queued,      \* batch.commits / deferred_commits: per entry [files, diff]
  fk,          \* the 1-based index of the entry the flush handles next
  \* the commits the session created, oldest first: per commit
  \* [changes, entry], entry = 0 for a commit made at once
  log,
  \* ---- suggest_granular_split and parse_diff_hunks (gitbahn-mcp/src/main.rs)
  hpc,          \* position: "idle", "entry", "returned"
  split_diff,   \* the staged diff text
  \* split_hunks: what parse_diff_hunks returned, per hunk
  \* [file, start_line, additions, deletions]
  split_hunks,
  split_groups, \* the groups built from the hunks: per group [files, line_count]
  \* ---- the commit times of one run of the commit command (commit.rs)
  clock,       \* the wall clock (Local::now()), in seconds
  ki,          \* the 0-based index i of the run's loop over the groups
  authored     \* the author times of the commits the run created, in order

lockVars == <<lockFile, lpc, alive, pid, file>>

watchVars ==
  <<options, wpc, commit_count, commits_since_squash, since_rewrite, old_count,
    deferred_commits, batch, selection, shutdown, watching, chan,
    disconnected, interrupted,
    work, index, unpushed, unit, sm, inFlight, result, called, summary>>

applyVars ==
  <<strategy, apc, planLen, gi, group, applied, committed_chunks, file_contents,
    tree, indexc, head, created, outcome, commit_time>>

sendVars ==
  <<spc, attempt, delay_ms, last_error, requests, sleeps, responses, ret, calls>>

mergeVars == <<mpc, input_groups, target, groups>>

spreadVars ==
  <<tpc, spread, start, count, total_duration_secs, ti, current, timestamps>>

parseVars ==
  <<ppc, diff, lines_left, hunks, current_file, is_new_file, is_deleted,
    current_hunk_header, current_hunk_content, hunk_id, in_hunk, again,
    earlier>>

chunkVars ==
  <<cpc, ext, total_lines, filler, line_i, current_section_start,
    current_section_type, in_class, class_indent, brace_depth, chunks>>

squashVars ==
  <<qpc, before, history, squash_count, squash_dry_run, squash_ret>>

watcherVars == <<fpc, events, sent>>

flushVars ==
  <<xpc, fmode, notified, worktree, staged_changes, queued, fk, log>>

splitVars == <<hpc, split_diff, split_hunks, split_groups>>

timesVars == <<clock, ki, authored>>

\* The variables of the other parts, which the lock actions leave alone.
nonLockVars == <<watchVars, applyVars, sendVars, mergeVars, spreadVars, parseVars, chunkVars,
    squashVars, watcherVars, flushVars, splitVars, timesVars>>

vars == <<lockVars, nonLockVars>>

(***************************************************************************)
(* Text: a string is a sequence of character codes. 0..9 are the digits,   *)
(* NL the line feed, SP a blank, CH any other character.                   *)
(***************************************************************************)
NL == 10
SP == 11
CH == 12

IsDigit(c) == c \in 0..9

\* Display for u32: the decimal digits of n (what "{}" writes).
RECURSIVE Format(_)
Format(n) == IF n < 10 THEN <<n>> ELSE Format(n \div 10) \o <<n % 10>>

\* str::trim on the alphabet above: leading and trailing blanks dropped.
RECURSIVE TrimStart(_)
TrimStart(s) == IF s # <<>> /\ Head(s) = SP THEN TrimStart(Tail(s)) ELSE s

RECURSIVE TrimEnd(_)
TrimEnd(s) ==
  IF s # <<>> /\ s[Len(s)] = SP THEN TrimEnd(SubSeq(s, 1, Len(s) - 1)) ELSE s

Trim(s) == TrimEnd(TrimStart(s))

\* Option<u32>::None
NoPid == -1

RECURSIVE DigitsValue(_)
DigitsValue(s) ==
  IF s = <<>> THEN 0 ELSE 10 * DigitsValue(SubSeq(s, 1, Len(s) - 1)) + s[Len(s)]

\* str::parse::<u32>: decimal digits only, at least one; NoPid for Err.
ParseU32(s) ==
  IF s # <<>> /\ \A i \in 1..Len(s) : IsDigit(s[i]) THEN DigitsValue(s) ELSE NoPid

\* content.lines().next(): the text before the first line feed; None
\* (here: no line) for the empty string.
HasLine(s) == s # <<>>

RECURSIVE FirstLine(_)
FirstLine(s) ==
  IF s = <<>> \/ Head(s) = NL THEN <<>> ELSE <<Head(s)>> \o FirstLine(Tail(s))

\* The number of lines str::lines() yields.
RECURSIVE CountNL(_)
CountNL(s) == IF s = <<>> THEN 0 ELSE (IF Head(s) = NL THEN 1 ELSE 0) + CountNL(Tail(s))

LineCount(s) ==
  IF s = <<>> THEN 0 ELSE CountNL(s) + (IF s[Len(s)] = NL THEN 0 ELSE 1)

(***************************************************************************)
(* The lock file: src/core/lock.rs                                         *)
(***************************************************************************)
\* The number of bahn processes started on the same repository.
NumProcs == 2

Procs == 1..NumProcs

\* process::id() of each process: distinct, and of different lengths.
ProcessId(p) == IF p = 1 THEN 7 ELSE 40 + p

\* The pid a crashed earlier instance left in the lock file.
StalePid == 99

NoLockFile == [exists |-> FALSE, bytes |-> <<>>]

\* writeln!(file, "{}", process::id())
PidLine(p) == Format(ProcessId(p)) \o <<NL>>

\* A write of `data` at offset 0 of a file holding `old`.
WriteAt0(old, data) == data \o SubSeq(old, Len(data) + 1, Len(old))

\* A probe that never finds the process (the check left out).
is_process_running_never(n) == FALSE

\* is_process_running(pid): `kill -0 pid` succeeds.
is_process_running(n) == \E q \in Procs : alive[q] /\ ProcessId(q) = n

\* fs::remove_file(&lock_path), its error ignored: the path is unlinked and
\* every handle open on that file now refers to a file without a name.
RemoveLockFile ==
  /\ lockFile' = NoLockFile
  /\ file' = [q \in Procs |->
                IF lockFile.exists /\ file[q] = "live" THEN "orphan" ELSE file[q]]

\* The lock files a run may find: none, the line of a crashed instance, or
\* the empty file of an instance that died between create and write.
InitialLockFiles ==
  { NoLockFile,
    [exists |-> TRUE, bytes |-> Format(StalePid) \o <<NL>>],
    [exists |-> TRUE, bytes |-> <<>>] }

\* The processes before any of them calls LockGuard::acquire.
LockStart ==
  /\ lockFile \in InitialLockFiles
  /\ lpc = [p \in Procs |-> "idle"]
  /\ alive = [p \in Procs |-> TRUE]
  /\ pid = [p \in Procs |-> NoPid]
  /\ file = [p \in Procs |-> "none"]

\* lock.rs:23  if lock_path.exists()
Exists(p) ==
  /\ alive[p] /\ lpc[p] = "idle"
  /\ lpc' = [lpc EXCEPT ![p] = IF lockFile.exists THEN "read" ELSE "create"]
  /\ UNCHANGED <<lockFile, alive, pid, file>>
  /\ UNCHANGED nonLockVars

\* lock.rs:24-29  read_to_string(..).unwrap_or_default(), first line, parse
ReadPid(p) ==
  /\ alive[p] /\ lpc[p] = "read"
  /\ LET content == IF lockFile.exists THEN lockFile.bytes ELSE <<>>
         parsed  == IF HasLine(content)
                    THEN ParseU32(Trim(FirstLine(content)))
                    ELSE NoPid
     IN /\ pid' = [pid EXCEPT ![p] = parsed]
        /\ lpc' = [lpc EXCEPT ![p] = IF parsed # NoPid THEN "probe" ELSE "remove"]
  /\ UNCHANGED <<lockFile, alive, file>>
  /\ UNCHANGED nonLockVars

\* lock.rs:31-38  if is_process_running(pid) { bail!(..) }
Probe(p) ==
  /\ alive[p] /\ lpc[p] = "probe"
  /\ lpc' = [lpc EXCEPT ![p] =
               IF is_process_running(pid[p]) THEN "failed" ELSE "remove"]
  /\ UNCHANGED <<lockFile, alive, pid, file>>
  /\ UNCHANGED nonLockVars

\* lock.rs:43  let _ = fs::remove_file(&lock_path)
RemoveStale(p) ==
  /\ alive[p] /\ lpc[p] = "remove"
  /\ RemoveLockFile
  /\ lpc' = [lpc EXCEPT ![p] = "create"]
  /\ UNCHANGED <<alive, pid>>
  /\ UNCHANGED nonLockVars

\* lock.rs:47  File::create(&lock_path): a new file, or the old one truncated
Create(p) ==
  /\ alive[p] /\ lpc[p] = "create"
  /\ lockFile' = [exists |-> TRUE, bytes |-> <<>>]
  /\ file' = [file EXCEPT ![p] = "live"]
  /\ lpc' = [lpc EXCEPT ![p] = "write"]
  /\ UNCHANGED <<alive, pid>>
  /\ UNCHANGED nonLockVars

\* lock.rs:50-52  writeln!(file, ..); Ok(Self { path })
WritePid(p) ==
  /\ alive[p] /\ lpc[p] = "write"
  /\ lockFile' = IF file[p] = "live"
                 THEN [lockFile EXCEPT !.bytes = WriteAt0(@, PidLine(p))]
                 ELSE lockFile
  /\ file' = [file EXCEPT ![p] = "none"]
  /\ lpc' = [lpc EXCEPT ![p] = "held"]
  /\ UNCHANGED <<alive, pid>>
  /\ UNCHANGED nonLockVars

\* lock.rs:62-67  Drop for LockGuard
DropGuard(p) ==
  /\ alive[p] /\ lpc[p] = "held"
  /\ RemoveLockFile
  /\ lpc' = [lpc EXCEPT ![p] = "released"]
  /\ UNCHANGED <<alive, pid>>
  /\ UNCHANGED nonLockVars

\* The process ends: it returned from main, or it was killed (then no Drop
\* runs and the lock file stays).
ProcessExit(p) ==
  /\ alive[p] /\ lpc[p] # "idle"
  /\ alive' = [alive EXCEPT ![p] = FALSE]
  /\ lpc' = [lpc EXCEPT ![p] = "dead"]
  /\ file' = [file EXCEPT ![p] = "none"]
  /\ UNCHANGED <<lockFile, pid>>
  /\ UNCHANGED nonLockVars

LockNext ==
  \E p \in Procs :
    \/ Exists(p)
    \/ ReadPid(p)
    \/ Probe(p)
    \/ RemoveStale(p)
    \/ Create(p)
    \/ WritePid(p)
    \/ DropGuard(p)
    \/ ProcessExit(p)

\* The commit command is not running.
ApplyIdle ==
  /\ strategy = "none" /\ apc = "idle" /\ planLen = 0 /\ gi = 0
  /\ group = {} /\ applied = <<>> /\ committed_chunks = {}
  /\ file_contents = <<>> /\ tree = <<>> /\ indexc = <<>> /\ head = <<>>
  /\ created = 0 /\ outcome = "none" /\ commit_time = <<0, 0>>

\* No detailed send_message call is followed.
SendIdle ==
  /\ spc = "idle" /\ attempt = 0 /\ delay_ms = 0 /\ last_error = <<>>
  /\ requests = 0 /\ sleeps = <<>> /\ responses = <<>> /\ ret = <<>>
  /\ calls = 0

\* merge_groups_to_target is not running.
MergeIdle == mpc = "idle" /\ input_groups = <<>> /\ target = 0 /\ groups = <<>>

\* No timestamps are being generated.
SpreadIdle ==
  /\ tpc = "idle"
  /\ spread = <<>>
  /\ start = 0
  /\ count = 0
  /\ total_duration_secs = 0
  /\ ti = 0
  /\ current = 0
  /\ timestamps = <<>>

\* No diff is being parsed.
ParseIdle ==
  /\ ppc = "idle"
  /\ diff = <<>>
  /\ lines_left = <<>>
  /\ hunks = <<>>
  /\ current_file = <<>>
  /\ is_new_file = FALSE
  /\ is_deleted = FALSE
  /\ current_hunk_header = <<>>
  /\ current_hunk_content = <<>>
  /\ hunk_id = 0
  /\ in_hunk = FALSE
  /\ again = FALSE
  /\ earlier = <<>>

\* No file is being chunked.
ChunkIdle ==
  /\ cpc = "idle"
  /\ ext = ""
  /\ total_lines = 0
  /\ filler = ""
  /\ line_i = 0
  /\ current_section_start = 0
  /\ current_section_type = "Imports"
  /\ in_class = FALSE
  /\ class_indent = 0
  /\ brace_depth = 0
  /\ chunks = <<>>

\* No call of maybe_squash_commits is followed.
SquashIdle ==
  /\ qpc = "idle" /\ before = <<>> /\ history = <<>>
  /\ squash_count = 0 /\ squash_dry_run = FALSE /\ squash_ret = "none"

\* No FileWatcher thread is followed.
WatcherIdle == fpc = "idle" /\ events = <<>> /\ sent = <<>>

\* No session with queued commits is followed.
FlushIdle ==
  /\ xpc = "idle" /\ fmode = "defer" /\ notified = FALSE
  /\ worktree = {} /\ staged_changes = {}
  /\ queued = <<>> /\ fk = 0 /\ log = <<>>

\* suggest_granular_split is not running.
SplitIdle ==
  /\ hpc = "idle" /\ split_diff = <<>> /\ split_hunks = <<>>
  /\ split_groups = <<>>

\* No run of the commit command is followed for its commit times.
TimesIdle == clock = 0 /\ ki = 0 /\ authored = <<>>

\* The parts beside the lock, the watch loop and the apply loops at rest.
RestIdle == SendIdle /\ MergeIdle /\ SpreadIdle /\ ParseIdle /\ ChunkIdle
  /\ SquashIdle
  /\ WatcherIdle
  /\ FlushIdle
  /\ SplitIdle
  /\ TimesIdle

\* The watch-loop state while only the lock is exercised.
WatchIdle ==
  /\ options = [mode |-> "event", dry_run |-> FALSE, max_commits |-> 0,
                rewrite_history |-> FALSE]
  /\ wpc = "start"
  /\ commit_count = 0 /\ commits_since_squash = 0 /\ old_count = 0
  /\ since_rewrite = 0
  /\ deferred_commits = 0 /\ batch = 0 /\ selection = "none"
  /\ shutdown = FALSE /\ watching = FALSE /\ chan = <<>>
  /\ disconnected = FALSE /\ interrupted = FALSE
  /\ work = FALSE /\ index = FALSE /\ unpushed = 0
  /\ unit = "none"
  /\ sm = [state |-> "idle", attempt |-> 0, caller |-> "none"]
  /\ inFlight = 0 /\ result = "none" /\ called = FALSE /\ summary = FALSE

LockInit == LockStart /\ WatchIdle /\ ApplyIdle /\ RestIdle

SpecLock == LockInit /\ [][LockNext]_vars

\* Which processes hold a LockGuard.
Holds(p) == lpc[p] = "held"

(***************************************************************************)
(* The auto command in watch mode: src/commands/auto.rs                    *)
(* One driver process; the other processes only own (or not) the lock.     *)
(***************************************************************************)
\* The largest --max-commits value tried.
MaxCommits == 2

\* The number of WatchEvents the channel holds at most before the debouncer
\* coalesces further changes into the queued batch.
MaxQueue == 2

\* config.auto.squash_threshold
SquashThreshold == 2

\* core/ai.rs: const MAX_RETRIES
MAX_RETRIES == 3

\* The process that runs `bahn auto --watch`.
Driver == 1

Min(a, b) == IF a < b THEN a ELSE b

Modes == {"event", "polling", "defer"}

Done == {"done_ok", "done_err"}

\* The positions at which a watch loop is running.
InLoop == {"wait", "poll_top", "ai", "ai_done", "poll_sleep"}

loopLocals ==
  <<commit_count, commits_since_squash, since_rewrite, old_count,
    deferred_commits, batch, selection, shutdown>>
envVars == <<watching, chan, disconnected, interrupted>>
repoVars == <<work, index, unpushed>>
aiVars == <<sm, inFlight, result, called>>

\* The variables of the other parts, which the watch actions leave alone.
outsideWatch == <<lpc, alive, pid, file, applyVars, sendVars, mergeVars, spreadVars, parseVars, chunkVars,
    squashVars, watcherVars, flushVars, splitVars, timesVars>>

IdleCall == [state |-> "idle", attempt |-> 0, caller |-> "none"]

\* lock.rs:23-40  the check of an existing lock file: TRUE when acquire bails
\* because the file names a running process.
HeldByLiveProcess(lf) ==
  LET content == IF lf.exists THEN lf.bytes ELSE <<>>
      parsed  == IF lf.exists /\ HasLine(content)
                 THEN ParseU32(Trim(FirstLine(content)))
                 ELSE NoPid
  IN parsed # NoPid /\ is_process_running(parsed)

\* LockGuard::acquire (lock.rs:19-53) run to its end with no other process
\* taking a step: bail on a live holder, else remove the stale file, create
\* the file (which may fail) and write the pid (which may fail).
AcquireEffect ==
  IF HeldByLiveProcess(lockFile)
  THEN lockFile' = lockFile /\ wpc' = "lock_failed"
  ELSE \E io \in {"ok", "create_fails", "write_fails"} :
         /\ lockFile' = CASE io = "ok" -> [exists |-> TRUE, bytes |-> PidLine(Driver)]
                          [] io = "create_fails" -> NoLockFile
                          [] io = "write_fails" -> [exists |-> TRUE, bytes |-> <<>>]
         /\ wpc' = IF io = "ok" THEN "setup" ELSE "lock_failed"

\* A return that skips the Drop.
ReleaseLockLeaked == lockFile' = lockFile

\* Drop for LockGuard when `_lock` goes out of scope at the return of run.
ReleaseLock == lockFile' = NoLockFile

\* run returns Ok after the closing line of the loop.
ExitOk == wpc' = "done_ok" /\ summary' = TRUE /\ ReleaseLock

\* run returns an error propagated by `?`.
ExitErr == wpc' = "done_err" /\ summary' = summary /\ ReleaseLock

\* send_message begins: the first request goes out without a sleep.
StartCall(c) ==
  /\ sm' = [state |-> "request", attempt |-> 0, caller |-> c]
  /\ inFlight' = inFlight + 1
  /\ result' = "none"
  /\ called' = TRUE

NoCall == sm' = IdleCall /\ inFlight' = inFlight /\ result' = "none" /\ called' = called

\* auto.rs:851-859 and 926-936: count the unit, then maybe_squash_commits
\* (auto.rs:990-1001) up to its await of generate_squash_message.
ThenMaybeSquash(counted, newUnpushed, backTo) ==
  LET css == IF counted THEN Min(commits_since_squash + 1, SquashThreshold)
             ELSE commits_since_squash
      due == counted /\ options.rewrite_history /\ css >= SquashThreshold
  IN IF ~due
     THEN commits_since_squash' = css /\ wpc' = backTo /\ NoCall
     ELSE IF newUnpushed < SquashThreshold
          THEN commits_since_squash' = 0 /\ wpc' = backTo /\ NoCall
          ELSE commits_since_squash' = css /\ wpc' = "ai" /\ StartCall("squash")

WatchStart(modes) ==
  /\ options \in [mode : modes, dry_run : BOOLEAN, max_commits : 0..MaxCommits,
                  rewrite_history : BOOLEAN]
  /\ \E holder \in {0, Driver + 1, StalePid} :
       /\ lockFile = IF holder = 0 THEN NoLockFile
                     ELSE IF holder = StalePid
                          THEN [exists |-> TRUE, bytes |-> Format(StalePid) \o <<NL>>]
                          ELSE [exists |-> TRUE, bytes |-> PidLine(holder)]
       /\ lpc = [p \in Procs |-> IF p = holder THEN "held" ELSE "idle"]
  /\ alive = [p \in Procs |-> TRUE]
  /\ pid = [p \in Procs |-> NoPid]
  /\ file = [p \in Procs |-> "none"]
  /\ wpc = "start"
  /\ commit_count = 0 /\ commits_since_squash = 0 /\ old_count = 0
  /\ since_rewrite = 0
  /\ deferred_commits = 0 /\ batch = 0 /\ selection = "none"
  /\ shutdown = FALSE /\ watching = FALSE /\ chan = <<>>
  /\ disconnected = FALSE /\ interrupted = FALSE
  /\ work \in BOOLEAN /\ index = FALSE /\ unpushed = 0
  /\ unit = "none"
  /\ sm = IdleCall
  /\ inFlight = 0 /\ result = "none" /\ called = FALSE /\ summary = FALSE
  /\ ApplyIdle
  /\ RestIdle

WatchInit == WatchStart(Modes)

\* Every way of running the auto command: the watch loops of SpecWatch, the
\* prompt loop (--prompt) and the single shot (no --watch).
AutoModes == Modes \cup {"prompt", "single"}

AutoInit == WatchStart(AutoModes)

\* The acquisition moved behind the start of the watcher.
RunAcquireLate ==
  /\ wpc = "start"
  /\ watching' = TRUE
  /\ AcquireEffect
  /\ UNCHANGED <<options, loopLocals, chan, disconnected, interrupted, repoVars,
                 unit, aiVars, summary, outsideWatch>>

\* auto.rs:222-226  let _lock = LockGuard::acquire(repo_root)?;
RunAcquire ==
  /\ wpc = "start" /\ options.mode # "single"
  /\ AcquireEffect
  /\ UNCHANGED <<options, loopLocals, envVars, repoVars, unit, aiVars, summary,
                 outsideWatch>>

\* auto.rs:228-234, 834-835, 561-562: the loop is entered; the event-driven
\* and defer loops start the FileWatcher first.
EnterLoop ==
  /\ wpc = "setup"
  /\ IF options.mode = "polling"
     THEN wpc' = "poll_top" /\ watching' = watching
     ELSE wpc' = "wait" /\ watching' = TRUE
  /\ UNCHANGED <<options, loopLocals, chan, disconnected, interrupted, repoVars,
                 unit, aiVars, summary, lockFile, outsideWatch>>

\* auto.rs:835, 562: watcher.watch(..)? fails, the error leaves run.
WatcherSetupFails ==
  /\ wpc = "setup" /\ options.mode # "polling"
  /\ ExitErr
  /\ UNCHANGED <<options, loopLocals, envVars, repoVars, unit, aiVars,
                 outsideWatch>>

(***************************************************************************)
(* send_message (src/core/ai.rs:312-381) as awaited by a unit of work.     *)
(* In polling mode the unit runs inside select! beside ctrl_c(): once an   *)
(* interrupt is pending that branch is taken and the unit makes no step.   *)
(***************************************************************************)
SelectTakesCtrlC ==
  options.mode = "polling" /\ sm.caller = "commit" /\ interrupted

\* ai.rs:353-360  a success status: the payload is returned
RespSuccess ==
  /\ wpc = "ai" /\ sm.state = "request" /\ ~SelectTakesCtrlC
  /\ inFlight' = inFlight - 1
  /\ sm' = [sm EXCEPT !.state = "idle"]
  /\ result' = "ok"
  /\ wpc' = "ai_done"
  /\ UNCHANGED <<options, loopLocals, envVars, repoVars, unit, called, summary,
                 lockFile, outsideWatch>>

\* ai.rs:343-347, 366-370, 376-380  network error, 429 or 5xx: retry, or give
\* up after MAX_RETRIES retries
RespRetryable ==
  /\ wpc = "ai" /\ sm.state = "request" /\ ~SelectTakesCtrlC
  /\ inFlight' = inFlight - 1
  /\ IF sm.attempt < MAX_RETRIES
     THEN /\ sm' = [sm EXCEPT !.state = "sleep", !.attempt = @ + 1]
          /\ result' = result /\ wpc' = wpc
     ELSE /\ sm' = [sm EXCEPT !.state = "idle"]
          /\ result' = "err" /\ wpc' = "ai_done"
  /\ UNCHANGED <<options, loopLocals, envVars, repoVars, unit, called, summary,
                 lockFile, outsideWatch>>

\* ai.rs:354-355, 372-373  any other status (or an unreadable body): fail at once
RespFatal ==
  /\ wpc = "ai" /\ sm.state = "request" /\ ~SelectTakesCtrlC
  /\ inFlight' = inFlight - 1
  /\ sm' = [sm EXCEPT !.state = "idle"]
  /\ result' = "err"
  /\ wpc' = "ai_done"
  /\ UNCHANGED <<options, loopLocals, envVars, repoVars, unit, called, summary,
                 lockFile, outsideWatch>>

\* ai.rs:326-340  the backoff sleep ends and the next request goes out
RetryAfterSleep ==
  /\ wpc = "ai" /\ sm.state = "sleep" /\ ~SelectTakesCtrlC
  /\ sm' = [sm EXCEPT !.state = "request"]
  /\ inFlight' = inFlight + 1
  /\ UNCHANGED <<options, wpc, loopLocals, envVars, repoVars, unit, result,
                 called, summary, lockFile, outsideWatch>>

(***************************************************************************)
(* run_event_watch_mode: auto.rs:824-892                                   *)
(***************************************************************************)
\* auto.rs:841  while !shutdown && commit_count < options.max_commits
EventCond == ~shutdown /\ commit_count < options.max_commits

\* auto.rs:841, 882-891  the loop ends: closing lines, Ok(())
EvLoopExit ==
  /\ options.mode = "event" /\ wpc = "wait" /\ ~EventCond
  /\ ExitOk
  /\ UNCHANGED <<options, loopLocals, envVars, repoVars, unit, aiVars,
                 outsideWatch>>

\* auto.rs:843-848 with check_and_commit (955-968) up to its await: a batch
\* is taken and handled at positions `at`.
EvRecvChangedAt(at) ==
  /\ options.mode = "event" /\ wpc \in at /\ EventCond
  /\ chan # <<>> /\ Head(chan) = "changed"
  /\ chan' = Tail(chan)
  /\ IF work \/ index
     THEN \* git add -A; the staged changes are not empty; the message is asked for
          /\ work' = FALSE /\ index' = TRUE
          /\ unit' = "staged"
          /\ wpc' = "ai"
          /\ StartCall("commit")
          /\ UNCHANGED <<commits_since_squash, since_rewrite>>
     ELSE \* nothing to commit: Ok(()) at once
          /\ UNCHANGED <<work, index, unit, since_rewrite>>
          /\ ThenMaybeSquash(TRUE, unpushed, "wait")
  /\ UNCHANGED <<options, commit_count, old_count, deferred_commits, batch, selection, shutdown,
                 watching, disconnected, interrupted, unpushed, summary,
                 lockFile, outsideWatch>>

\* The unit of work spawned instead of awaited: the next batch is taken
\* while a call is outstanding.
EvRecvChangedSpawned == EvRecvChangedAt({"wait", "ai"})

EvRecvChanged == EvRecvChangedAt({"wait"})

\* auto.rs:848-860 with check_and_commit (968-987) after its await; the
\* message may fail to arrive and git::create_commit may fail.
EvCommitDone ==
  /\ options.mode = "event" /\ wpc = "ai_done" /\ sm.caller = "commit"
  /\ unit' = "none"
  /\ \E commit_ok \in BOOLEAN :
       IF result = "ok" /\ (options.dry_run \/ commit_ok)
       THEN IF options.dry_run
            THEN /\ UNCHANGED <<commit_count, since_rewrite, index, unpushed>>
                 /\ ThenMaybeSquash(TRUE, unpushed, "wait")
            ELSE /\ commit_count' = commit_count + 1
                 /\ since_rewrite' = Min(since_rewrite + 1, SquashThreshold)
                 /\ index' = FALSE
                 /\ unpushed' = unpushed + 1
                 /\ ThenMaybeSquash(TRUE, unpushed + 1, "wait")
       ELSE \* Err(e): printed, the loop goes on
            /\ UNCHANGED <<commit_count, commits_since_squash, since_rewrite, index, unpushed>>
            /\ wpc' = "wait" /\ NoCall
  /\ UNCHANGED <<options, old_count, deferred_commits, batch, selection, shutdown, envVars, work,
                 summary, lockFile, outsideWatch>>

\* auto.rs:854-858, 930-934 with maybe_squash_commits (1006-1026) after its
\* await, in the event-driven and the polling loop; git::squash_commits may
\* fail, and a failure is only printed.
SquashDone ==
  /\ wpc = "ai_done" /\ sm.caller = "squash"
  /\ \E squash_ok \in BOOLEAN :
       IF result = "ok" /\ (options.dry_run \/ squash_ok)
       THEN /\ commits_since_squash' = 0
            /\ since_rewrite' = IF options.dry_run THEN since_rewrite ELSE 0
            /\ unpushed' = IF options.dry_run THEN unpushed
                           ELSE unpushed - SquashThreshold + 1
       ELSE UNCHANGED <<commits_since_squash, since_rewrite, unpushed>>
  /\ wpc' = IF options.mode = "polling" THEN "poll_sleep" ELSE "wait"
  /\ NoCall
  /\ UNCHANGED <<options, commit_count, old_count, deferred_commits, batch, selection, shutdown,
                 envVars, work, index, unit, summary, lockFile, outsideWatch>>

\* auto.rs:862-864, 630-632, 428-430  Ok(WatchEvent::Error(e)): a warning
RecvError ==
  /\ options.mode \in {"event", "prompt", "defer"} /\ wpc = "wait"
  /\ IF options.mode = "defer"
     THEN ~shutdown /\ deferred_commits < options.max_commits
     ELSE EventCond
  /\ chan # <<>> /\ Head(chan) = "error"
  /\ chan' = Tail(chan)
  /\ UNCHANGED <<options, wpc, loopLocals, watching, disconnected, interrupted,
                 repoVars, unit, aiVars, summary, lockFile, outsideWatch>>

\* auto.rs:865-874, 633-642, 431-439  Err(Timeout): select! { biased; ctrl_c() => shutdown
\* = true, sleep(1 ms) => {} }
RecvTimeout ==
  /\ options.mode \in {"event", "prompt", "defer"} /\ wpc = "wait"
  /\ IF options.mode = "defer"
     THEN ~shutdown /\ deferred_commits < options.max_commits
     ELSE EventCond
  /\ chan = <<>> /\ ~disconnected
  /\ IF interrupted
     THEN shutdown' = TRUE /\ interrupted' = FALSE
     ELSE UNCHANGED <<shutdown, interrupted>>
  /\ UNCHANGED <<options, wpc, commit_count, commits_since_squash, since_rewrite, old_count,
                 deferred_commits, batch, selection, watching, chan, disconnected, repoVars, unit,
                 aiVars, summary, lockFile, outsideWatch>>

\* auto.rs:875-878, 882-891  Err(Disconnected): break, closing lines, Ok(())
EvDisconnected ==
  /\ options.mode = "event" /\ wpc = "wait" /\ EventCond
  /\ chan = <<>> /\ disconnected
  /\ ExitOk
  /\ UNCHANGED <<options, loopLocals, envVars, repoVars, unit, aiVars,
                 outsideWatch>>

(***************************************************************************)
(* run_polling_watch_mode: auto.rs:894-953                                 *)
(***************************************************************************)
\* auto.rs:905-908, 947-952  max commits reached: break, closing line, Ok(())
PollMaxReached ==
  /\ options.mode = "polling" /\ wpc = "poll_top"
  /\ commit_count >= options.max_commits
  /\ ExitOk
  /\ UNCHANGED <<options, loopLocals, envVars, repoVars, unit, aiVars,
                 outsideWatch>>

\* auto.rs:910-915 with check_and_commit (955-968) polled up to its await
PollCheck ==
  /\ options.mode = "polling" /\ wpc = "poll_top"
  /\ commit_count < options.max_commits
  /\ old_count' = commit_count
  /\ IF work \/ index
     THEN /\ work' = FALSE /\ index' = TRUE
          /\ unit' = "staged"
          /\ wpc' = "ai"
          /\ StartCall("commit")
     ELSE \* nothing to commit: Ok(()), commit_count = old_count, on to the sleep
          /\ UNCHANGED <<work, index, unit>>
          /\ wpc' = "poll_sleep" /\ NoCall
  /\ UNCHANGED <<options, commit_count, commits_since_squash, since_rewrite, deferred_commits, batch, selection,
                 shutdown, envVars, unpushed, summary, lockFile, outsideWatch>>

\* auto.rs:916-924, 940-943  the ctrl_c() branch of a select! is taken before
\* the unit is polled, or during the sleep: break, closing line, Ok(())
PollCtrlC ==
  /\ options.mode = "polling" /\ interrupted
  /\ \/ wpc = "poll_top" /\ commit_count < options.max_commits
     \/ wpc = "poll_sleep"
  /\ ExitOk
  /\ UNCHANGED <<options, loopLocals, envVars, repoVars, unit, aiVars,
                 outsideWatch>>

\* auto.rs:911-924  the ctrl_c() branch is taken while check_and_commit is
\* pending at its await: select! drops that future, the request with it
PollAbort ==
  /\ wpc = "ai" /\ SelectTakesCtrlC
  /\ sm' = IdleCall
  /\ inFlight' = IF sm.state = "request" THEN inFlight - 1 ELSE inFlight
  /\ result' = "none"
  /\ ExitOk
  /\ UNCHANGED <<options, loopLocals, envVars, repoVars, unit, called,
                 outsideWatch>>

\* auto.rs:912-914, 926-936 with check_and_commit (968-987) after its await:
\* `result?` propagates a failed message or a failed git::create_commit
PollCommitDone ==
  /\ options.mode = "polling" /\ wpc = "ai_done" /\ sm.caller = "commit"
  /\ unit' = "none"
  /\ \E commit_ok \in BOOLEAN :
       IF result = "ok" /\ (options.dry_run \/ commit_ok)
       THEN /\ summary' = summary /\ lockFile' = lockFile
            /\ IF options.dry_run
               THEN /\ UNCHANGED <<commit_count, since_rewrite, index, unpushed>>
                    /\ ThenMaybeSquash(FALSE, unpushed, "poll_sleep")
               ELSE /\ commit_count' = commit_count + 1
                    /\ since_rewrite' = Min(since_rewrite + 1, SquashThreshold)
                    /\ index' = FALSE
                    /\ unpushed' = unpushed + 1
                    /\ ThenMaybeSquash(TRUE, unpushed + 1, "poll_sleep")
       ELSE /\ UNCHANGED <<commit_count, commits_since_squash, since_rewrite, index, unpushed>>
            /\ NoCall
            /\ ExitErr
  /\ UNCHANGED <<options, old_count, deferred_commits, batch, selection, shutdown, envVars, work,
                 outsideWatch>>

\* auto.rs:938-939  the sleep of the interval ends first
PollSleepDone ==
  /\ options.mode = "polling" /\ wpc = "poll_sleep" /\ ~interrupted
  /\ wpc' = "poll_top"
  /\ UNCHANGED <<options, loopLocals, envVars, repoVars, unit, aiVars, summary,
                 lockFile, outsideWatch>>

(***************************************************************************)
(* run_defer_watch_mode: auto.rs:550-782                                   *)
(***************************************************************************)
\* auto.rs:567  while !shutdown && deferred_commits.len() < options.max_commits
DeferCond == ~shutdown /\ deferred_commits < options.max_commits

\* auto.rs:569-610  a batch: git add -A, `continue` when nothing is staged,
\* else the message is asked for
DfRecvChanged ==
  /\ options.mode = "defer" /\ wpc = "wait" /\ DeferCond
  /\ chan # <<>> /\ Head(chan) = "changed"
  /\ chan' = Tail(chan)
  /\ work' = FALSE /\ index' = (work \/ index)
  /\ IF work \/ index
     THEN unit' = "staged" /\ wpc' = "ai" /\ StartCall("defer")
     ELSE unit' = unit /\ wpc' = wpc /\ NoCall
  /\ UNCHANGED <<options, loopLocals, watching, disconnected, interrupted,
                 unpushed, summary, lockFile, outsideWatch>>

\* git::create_commit on the staged changes: HEAD moves to a new commit.
HeadAfterCommit(n) == n + 1

\* auto.rs:612-628  the message is kept in a DeferredCommit and no commit is
\* created: HEAD stays.
HeadAfterQueue(n) == n

\* auto.rs:610-628  the message arrives (or `?` leaves run): the commit is
\* queued and git::reset_index puts the changes back (or `?` leaves run)
DfQueued ==
  /\ options.mode = "defer" /\ wpc = "ai_done" /\ sm.caller = "defer"
  /\ unit' = "none"
  /\ unpushed' = IF result = "ok" THEN HeadAfterQueue(unpushed) ELSE unpushed
  /\ NoCall
  /\ \E reset_ok \in BOOLEAN :
       IF result = "ok"
       THEN /\ deferred_commits' = deferred_commits + 1
            /\ IF reset_ok
               THEN /\ index' = FALSE /\ work' = TRUE
                    /\ wpc' = "wait" /\ summary' = summary /\ lockFile' = lockFile
               ELSE UNCHANGED <<index, work>> /\ ExitErr
       ELSE UNCHANGED <<deferred_commits, index, work>> /\ ExitErr
  /\ UNCHANGED <<options, commit_count, commits_since_squash, since_rewrite, old_count,
                 batch, selection, shutdown, envVars, outsideWatch>>

\* auto.rs:567, 643-646  the loop ends or the watcher is gone
DfLoopExit ==
  /\ options.mode = "defer" /\ wpc = "wait"
  /\ ~DeferCond \/ (chan = <<>> /\ disconnected)
  /\ wpc' = "finalize"
  /\ UNCHANGED <<options, loopLocals, envVars, repoVars, unit, aiVars, summary,
                 lockFile, outsideWatch>>

\* auto.rs:651-781  nothing queued: Ok(()); else the user chooses to create the
\* commits (0, or 1 with new times: git add -A, then one create_commit_at per
\* queued entry unless dry-run; `made` of them succeed) or to cancel; the
\* dialogue may fail
Finalize ==
  /\ wpc = "finalize"
  /\ IF deferred_commits = 0
     THEN UNCHANGED <<repoVars, commit_count, selection>> /\ ExitOk
     ELSE \E choice \in {"create", "adjust", "cancel", "fails"} :
            CASE choice \in {"create", "adjust"} ->
                   /\ selection' = choice
                   /\ work' = FALSE
                   /\ \E made \in 0..deferred_commits :
                        IF options.dry_run
                        THEN /\ index' = (work \/ index)
                             /\ UNCHANGED <<unpushed, commit_count>>
                             /\ ExitOk
                        ELSE /\ index' = IF made = 0 THEN work \/ index
                                         ELSE FALSE
                             /\ unpushed' = unpushed + made
                             /\ commit_count' = made
                             /\ IF made = deferred_commits THEN ExitOk
                                ELSE ExitErr
              [] choice = "cancel" ->
                   /\ selection' = "cancel"
                   /\ UNCHANGED <<repoVars, commit_count>> /\ ExitOk
              [] choice = "fails" ->
                   UNCHANGED <<repoVars, commit_count, selection>> /\ ExitErr
  /\ UNCHANGED <<options, commits_since_squash, since_rewrite, old_count,
                 deferred_commits, batch, shutdown, envVars, unit, aiVars,
                 outsideWatch>>

(***************************************************************************)
(* run_prompt_watch_mode: auto.rs:285-548                                  *)
(***************************************************************************)
\* The largest number of entries the user adds to the batch of one session.
MaxBatch == 2

\* auto.rs:302-343  a batch: git add -A, `continue` when nothing is staged,
\* else the message is asked for
PrRecvChanged ==
  /\ options.mode = "prompt" /\ wpc = "wait" /\ EventCond
  /\ chan # <<>> /\ Head(chan) = "changed"
  /\ chan' = Tail(chan)
  /\ work' = FALSE /\ index' = (work \/ index)
  /\ IF work \/ index
     THEN unit' = "staged" /\ wpc' = "ai" /\ StartCall("prompt")
     ELSE unit' = unit /\ wpc' = wpc /\ NoCall
  /\ UNCHANGED <<options, loopLocals, watching, disconnected, interrupted,
                 unpushed, summary, lockFile, outsideWatch>>

\* auto.rs:343-426  the message arrives (or `?` leaves run) and the user
\* chooses: commit now or backdated (create_commit / create_commit_at, unless
\* dry-run), add to the batch (reset_index), or skip (reset_index); the
\* dialogue, the time input and the git calls may fail
PrAnswered ==
  /\ options.mode = "prompt" /\ wpc = "ai_done" /\ sm.caller = "prompt"
  /\ unit' = "none"
  /\ NoCall
  /\ IF result # "ok"
     THEN UNCHANGED <<commit_count, batch, repoVars>> /\ ExitErr
     ELSE \E choice \in {"now", "backdated", "batch", "skip"}, git_ok \in BOOLEAN :
            CASE ~git_ok -> UNCHANGED <<commit_count, batch, repoVars>> /\ ExitErr
              [] git_ok /\ choice \in {"now", "backdated"} ->
                   /\ IF options.dry_run
                      THEN UNCHANGED <<commit_count, repoVars>>
                      ELSE /\ commit_count' = commit_count + 1
                           /\ index' = FALSE /\ work' = work
                           /\ unpushed' = unpushed + 1
                   /\ batch' = batch
                   /\ wpc' = "wait" /\ summary' = summary /\ lockFile' = lockFile
              [] git_ok /\ choice = "batch" ->
                   /\ batch < MaxBatch
                   /\ batch' = batch + 1
                   /\ index' = FALSE /\ work' = TRUE /\ unpushed' = unpushed
                   /\ commit_count' = commit_count
                   /\ wpc' = "wait" /\ summary' = summary /\ lockFile' = lockFile
              [] git_ok /\ choice = "skip" ->
                   /\ index' = FALSE /\ work' = TRUE /\ unpushed' = unpushed
                   /\ UNCHANGED <<commit_count, batch>>
                   /\ wpc' = "wait" /\ summary' = summary /\ lockFile' = lockFile
  /\ UNCHANGED <<options, commits_since_squash, since_rewrite, old_count,
                 deferred_commits, selection, shutdown, envVars, outsideWatch>>

\* auto.rs:301, 440-443  the loop ends or the watcher is gone
PrLoopExit ==
  /\ options.mode = "prompt" /\ wpc = "wait"
  /\ ~EventCond \/ (chan = <<>> /\ disconnected)
  /\ wpc' = "flush"
  /\ UNCHANGED <<options, loopLocals, envVars, repoVars, unit, aiVars, summary,
                 lockFile, outsideWatch>>

\* auto.rs:447-547  an empty batch: the closing line; else the user chooses
\* to commit the batch (now, or with spread timestamps: per entry
\* stage_files_for_deferred, then create_commit / create_commit_at and
\* commit_count += 1 unless dry-run; `made` of them succeed) or to discard
\* it; the dialogue may fail
PrFlush ==
  /\ wpc = "flush"
  /\ IF batch = 0
     THEN UNCHANGED <<repoVars, commit_count, selection>> /\ ExitOk
     ELSE \E choice \in {"now", "spread", "discard", "fails"} :
            CASE choice \in {"now", "spread"} ->
                   /\ selection' = choice
                   /\ \E made \in 0..batch, rest \in BOOLEAN :
                        IF options.dry_run
                        THEN /\ work' = (work /\ rest)
                             /\ index' = (index \/ work)
                             /\ UNCHANGED <<unpushed, commit_count>>
                             /\ ExitOk
                        ELSE /\ work' = (work /\ rest)
                             /\ index' = IF made = 0 THEN index \/ work
                                         ELSE FALSE
                             /\ unpushed' = unpushed + made
                             /\ commit_count' = commit_count + made
                             /\ IF made = batch THEN ExitOk ELSE ExitErr
              [] choice = "discard" ->
                   /\ selection' = "discard"
                   /\ UNCHANGED <<repoVars, commit_count>> /\ ExitOk
              [] choice = "fails" ->
                   UNCHANGED <<repoVars, commit_count, selection>> /\ ExitErr
  /\ UNCHANGED <<options, commits_since_squash, since_rewrite, old_count,
                 deferred_commits, batch, shutdown, envVars, unit, aiVars,
                 outsideWatch>>

(***************************************************************************)
(* run_single: auto.rs:240-282, reached from run (236) without --watch.    *)
(* No LockGuard exists on this path, so the lock file is left as it is.    *)
(***************************************************************************)
\* auto.rs:241-268  no changes: Ok(()); else git add -A, an empty staged set:
\* Ok(()); else the message is asked for
SingleStage ==
  /\ options.mode = "single" /\ wpc = "start"
  /\ work' = FALSE /\ index' = (work \/ index)
  /\ IF work \/ index
     THEN /\ unit' = "staged" /\ wpc' = "ai" /\ StartCall("single")
          /\ summary' = summary
     ELSE /\ unit' = unit /\ wpc' = "done_ok" /\ NoCall
          /\ summary' = TRUE
  /\ UNCHANGED <<options, loopLocals, envVars, unpushed, lockFile,
                 outsideWatch>>

\* auto.rs:268-281  the message arrives (or `?` leaves run); dry-run prints
\* it, else git::create_commit, which may fail
SingleDone ==
  /\ options.mode = "single" /\ wpc = "ai_done" /\ sm.caller = "single"
  /\ unit' = "none"
  /\ NoCall
  /\ \E commit_ok \in BOOLEAN :
       IF result = "ok" /\ (options.dry_run \/ commit_ok)
       THEN /\ IF options.dry_run
               THEN UNCHANGED <<commit_count, index, unpushed>>
               ELSE /\ commit_count' = commit_count + 1
                    /\ index' = FALSE
                    /\ unpushed' = unpushed + 1
            /\ wpc' = "done_ok" /\ summary' = TRUE
       ELSE /\ UNCHANGED <<commit_count, index, unpushed>>
            /\ wpc' = "done_err" /\ summary' = summary
  /\ UNCHANGED <<options, commits_since_squash, since_rewrite, old_count,
                 deferred_commits, batch, selection, shutdown, envVars, work,
                 lockFile, outsideWatch>>

(***************************************************************************)
(* The environment of a watch loop.                                        *)
(***************************************************************************)
Enqueue(e) ==
  IF watching /\ ~disconnected /\ Len(chan) < MaxQueue
  THEN chan' = Append(chan, e)
  ELSE chan' = chan

\* The user changes a file of the working tree; a running watcher reports it.
UserEdit ==
  /\ wpc \in InLoop
  /\ (watching /\ ~disconnected) => Len(chan) < MaxQueue
  /\ work' = TRUE
  /\ Enqueue("changed")
  /\ UNCHANGED <<options, wpc, loopLocals, watching, disconnected, interrupted,
                 index, unpushed, unit, aiVars, summary, lockFile, outsideWatch>>

\* watcher.rs:99-101  the debouncer reports an error
WatcherError ==
  /\ wpc \in InLoop /\ watching /\ ~disconnected /\ Len(chan) < MaxQueue
  /\ Enqueue("error")
  /\ UNCHANGED <<options, wpc, loopLocals, watching, disconnected, interrupted,
                 repoVars, unit, aiVars, summary, lockFile, outsideWatch>>

\* watcher.rs:102-105  the watcher thread ends and drops its sender
WatcherDies ==
  /\ wpc \in InLoop /\ watching /\ ~disconnected
  /\ disconnected' = TRUE
  /\ UNCHANGED <<options, wpc, loopLocals, watching, chan, interrupted,
                 repoVars, unit, aiVars, summary, lockFile, outsideWatch>>

\* The user presses Ctrl+C while a watch loop is running.
Interrupt ==
  /\ wpc \in InLoop /\ ~interrupted
  /\ interrupted' = TRUE
  /\ UNCHANGED <<options, wpc, loopLocals, watching, chan, disconnected,
                 repoVars, unit, aiVars, summary, lockFile, outsideWatch>>

\* The steps of the driver process, the answers of the classifier included.
DriverStep ==
  \/ RunAcquire \/ EnterLoop \/ WatcherSetupFails
  \/ RespSuccess \/ RespRetryable \/ RespFatal \/ RetryAfterSleep
  \/ EvLoopExit \/ EvRecvChanged \/ EvCommitDone \/ SquashDone
  \/ RecvError \/ RecvTimeout \/ EvDisconnected
  \/ PollMaxReached \/ PollCheck \/ PollCtrlC \/ PollAbort \/ PollCommitDone
  \/ PollSleepDone
  \/ DfRecvChanged \/ DfQueued \/ DfLoopExit \/ Finalize

EnvStep == UserEdit \/ WatcherError \/ WatcherDies \/ Interrupt

WatchNext == DriverStep \/ EnvStep

SpecWatch == WatchInit /\ [][WatchNext]_vars

\* The driver is scheduled whenever it can take a step; nothing is assumed
\* of the environment.
SpecWatchLive == WatchInit /\ [][WatchNext]_vars /\ WF_vars(DriverStep)

AutoStep ==
  \/ PrRecvChanged \/ PrAnswered \/ PrLoopExit \/ PrFlush
  \/ SingleStage \/ SingleDone

AutoNext == WatchNext \/ AutoStep

SpecAuto == AutoInit /\ [][AutoNext]_vars

(***************************************************************************)
(* The commit command's apply loops: src/commands/commit.rs                *)
(* run_atomic_commits (units are files), run_granular_commits (units are   *)
(* hunks) and run_realistic_commits (units are chunks), from the point     *)
(* where the plan is confirmed and the index has been reset.  The content  *)
(* of a file is the sequence of the units it holds, in start-line order.   *)
(***************************************************************************)
\* The number of units (files, hunks, chunks) of the change set.
NumUnits == 3

\* The largest number of groups in a classifier response.
MaxGroups == 2

\* The largest number of ids in one group of a response.
MaxGroupLen == 2

Units == 1..NumUnits

\* The ids a response may name; 0 names no unit of the change set.
Ids == 0..NumUnits

Files == 1..NumUnits

Strategies == {"atomic", "granular", "realistic"}

\* DiffHunk.file_path / FileChunk.file_path: a file is its own unit in atomic
\* mode; else two units per file.
FileOf(u) == IF strategy = "atomic" THEN u ELSE (u + 1) \div 2

UnitsOf(f) == {u \in Units : FileOf(u) = f}

Range(s) == {s[k] : k \in DOMAIN s}

Count(x, s) == Cardinality({k \in DOMAIN s : s[k] = x})

RECURSIVE Asc(_)
Asc(S) ==
  IF S = {} THEN <<>>
  ELSE LET m == CHOOSE x \in S : \A y \in S : x <= y
       IN <<m>> \o Asc(S \ {m})

\* The chunks in the order the groups supplied them.
Unsorted(s) == s

\* sorted_chunks.sort_by_key(|c| c.start_line): a stable sort; the units of a
\* file are numbered in start-line order.
RECURSIVE SortByStart(_)
SortByStart(s) ==
  IF s = <<>> THEN <<>>
  ELSE LET x    == s[Len(s)]
           rest == SortByStart(SubSeq(s, 1, Len(s) - 1))
           k    == Cardinality({j \in DOMAIN rest : rest[j] <= x})
       IN SubSeq(rest, 1, k) \o <<x>> \o SubSeq(rest, k + 1, Len(rest))

\* The working-tree content of a file before the command ran; what
\* original_contents holds for the files that have chunks.
Original(f) == Asc(UnitsOf(f))

\* The groups a classifier response may hold: any ids, in any order,
\* repeated or missing.
Groups == UNION {[1..n -> Ids] : n \in 0..MaxGroupLen}

Bump(seq) == [u \in Units |-> applied[u] + Count(u, seq)]

\* The variables of the other parts, which the apply actions leave alone.
outsideApply == <<lockVars, watchVars, sendVars, mergeVars, spreadVars, parseVars, chunkVars,
    squashVars, watcherVars, flushVars, splitVars, timesVars>>

\* No process touches the lock file.
LockIdle ==
  /\ lockFile = NoLockFile
  /\ lpc = [p \in Procs |-> "idle"]
  /\ alive = [p \in Procs |-> TRUE]
  /\ pid = [p \in Procs |-> NoPid]
  /\ file = [p \in Procs |-> "none"]

\* git.rs:1384-1386  repo.signature(): the time at which the commit is made,
\* which is no entry of the schedule.
ImplicitNow == 0

\* commit.rs:382, 605, 839  generate_spread_timestamps(plan.len(), ..) returns
\* one entry per planned group (commit.rs:93-110); entry k stands for itself.
ScheduleLen == planLen

\* commit.rs:474, 704, 982  timestamps.get(i).copied() with the loop's own
\* index (0-based in the code, 1-based here); None becomes the implicit time.
ScheduleEntryByCreated(i, n) == IF n + 1 <= ScheduleLen THEN n + 1 ELSE ImplicitNow

ScheduleEntry(i, n) == IF i <= ScheduleLen THEN i ELSE ImplicitNow

\* git.rs:1380-1387, 1408-1424  create_commit_at: one signature is the author
\* and the committer of the commit.
SignedAt(timestamp) == <<timestamp, timestamp>>

\* git.rs:1212-1217 on the diff of HEAD against the index (git.rs:1289-1293)
NothingStagedNever(staged) == FALSE

NothingStaged(staged) == staged = head

\* commit.rs:441-447, 674-676, 922-923  the ids of a group that name a unit of
\* the change set, in the order given.
ResolveAll(g) == g

Resolve(g) == SelectSeq(g, LAMBDA id : id \in Units)

\* git.rs:193-229  `git add` and `git apply --cached` write the index, never
\* the working tree.
StageHunksTreePatched(staged) == staged

StageHunksTree(staged) == tree

ApplyInit ==
  /\ strategy \in Strategies
  /\ apc = "loop"
  /\ planLen \in 1..MaxGroups
  /\ gi = 1
  /\ group = {}
  /\ applied = [u \in Units |-> 0]
  /\ committed_chunks = {}
  /\ file_contents = [f \in Files |-> <<>>]
  /\ tree = [f \in Files |-> Original(f)]
  /\ indexc = [f \in Files |-> <<>>]
  /\ head = [f \in Files |-> <<>>]
  /\ created = 0
  /\ outcome = "none"
  /\ commit_time = <<0, 0>>
  /\ LockIdle
  /\ WatchIdle
  /\ RestIdle

\* commit.rs:449-456, 678-685, 927-934  "no valid files / hunks / chunks":
\* a notice, then `continue`.
SkipGroup ==
  /\ gi' = gi + 1
  /\ outcome' = "no_valid"
  /\ UNCHANGED <<apc, applied, indexc, head, created, commit_time>>

\* `?` after a failing staging call returns from the command.
StageFailed ==
  /\ apc' = "done_err"
  /\ outcome' = "stage_failed"
  /\ UNCHANGED <<gi, indexc, head, created, commit_time>>

\* The end of one iteration of the loop once the group's files are staged as
\* `staged`: skip when nothing is staged, else create_commit_at, which fails
\* or creates the commit.
CommitStaged(staged) ==
  /\ indexc' = staged
  /\ IF NothingStaged(staged)
     THEN /\ gi' = gi + 1 /\ apc' = apc /\ outcome' = "nothing_staged"
          /\ UNCHANGED <<head, created, commit_time>>
     ELSE \/ /\ apc' = "done_err" /\ outcome' = "commit_failed"
             /\ UNCHANGED <<gi, head, created, commit_time>>
          \/ /\ head' = staged /\ created' = created + 1
             /\ commit_time' = SignedAt(ScheduleEntry(gi, created))
             /\ outcome' = "committed"
             /\ gi' = gi + 1 /\ apc' = apc

\* commit.rs:436-488  one iteration of the loop of run_atomic_commits
AtomicGroup ==
  /\ strategy = "atomic" /\ apc = "loop" /\ gi <= planLen
  /\ \E g \in Groups :
       LET valid_files == Resolve(g)
           staged == [f \in Files |->
                        IF f \in Range(valid_files) THEN tree[f] ELSE indexc[f]]
       IN /\ group' = Range(g)
          /\ IF valid_files = <<>>
             THEN SkipGroup
             ELSE /\ applied' = Bump(valid_files)
                  /\ \/ StageFailed
                     \/ CommitStaged(staged)
  /\ UNCHANGED <<strategy, planLen, committed_chunks, file_contents, tree,
                 outsideApply>>

\* commit.rs:672-722 with git::stage_hunks (git.rs:177-234): one iteration of
\* the loop of run_granular_commits.  The patch of a file applies to the index
\* only if it holds each hunk once and none that is staged already; when git
\* apply fails the whole file is staged.
GranularGroup ==
  /\ strategy = "granular" /\ apc = "loop" /\ gi <= planLen
  /\ \E g \in Groups :
       LET commit_hunks == Resolve(g)
           files == {FileOf(h) : h \in Range(commit_hunks)}
           file_hunks(f) == SelectSeq(commit_hunks, LAMBDA h : FileOf(h) = f)
           clean(f) == \A h \in Range(file_hunks(f)) :
                         /\ Count(h, file_hunks(f)) = 1
                         /\ h \notin Range(indexc[f])
       IN /\ group' = Range(g)
          /\ IF commit_hunks = <<>>
             THEN SkipGroup /\ UNCHANGED tree
             ELSE /\ applied' = Bump(commit_hunks)
                  /\ \/ StageFailed /\ UNCHANGED tree
                     \/ \E patched \in SUBSET {f \in files : clean(f)} :
                            LET staged ==
                                  [f \in Files |->
                                     IF f \notin files THEN indexc[f]
                                     ELSE IF f \in patched
                                          THEN SortByStart(indexc[f] \o file_hunks(f))
                                          ELSE tree[f]]
                            IN /\ tree' = StageHunksTree(staged)
                               /\ CommitStaged(staged)
  /\ UNCHANGED <<strategy, planLen, committed_chunks, file_contents,
                 outsideApply>>

\* commit.rs:920-996  one iteration of the loop of run_realistic_commits: the
\* chunks of the group not yet in committed_chunks are added to file_contents,
\* each affected file is rewritten with its cumulative content and staged
\* (either may fail and `?` returns at once), then the commit is created.
RealisticGroup ==
  /\ strategy = "realistic" /\ apc = "loop" /\ gi <= planLen
  /\ \E g \in Groups :
       LET commit_chunks ==
             SelectSeq(Resolve(g), LAMBDA id : id \notin committed_chunks)
           affected_files == {FileOf(c) : c \in Range(commit_chunks)}
           contents == [f \in Files |->
                          file_contents[f] \o
                            SelectSeq(commit_chunks, LAMBDA c : FileOf(c) = f)]
       IN /\ group' = Range(g)
          /\ IF commit_chunks = <<>>
             THEN SkipGroup /\ UNCHANGED <<committed_chunks, file_contents, tree>>
             ELSE /\ applied' = Bump(commit_chunks)
                  /\ file_contents' = contents
                  /\ committed_chunks' = committed_chunks \cup Range(commit_chunks)
                  /\ \E written \in SUBSET affected_files :
                       LET newTree == [f \in Files |->
                                         IF f \in written
                                         THEN SortByStart(contents[f])
                                         ELSE tree[f]]
                           staged == [f \in Files |->
                                        IF f \in written THEN newTree[f]
                                        ELSE indexc[f]]
                       IN /\ tree' = newTree
                          /\ IF written # affected_files
                             THEN \* write_file_content or stage_file failed
                                  /\ indexc' = staged /\ apc' = "done_err"
                                  /\ outcome' = "stage_failed"
                                  /\ UNCHANGED <<gi, head, created, commit_time>>
                             ELSE CommitStaged(staged)
  /\ UNCHANGED <<strategy, planLen, outsideApply>>

\* commit.rs:436, 672, 920  the loop has run through all groups
LoopEnd ==
  /\ apc = "loop" /\ gi > planLen
  /\ apc' = IF strategy = "realistic" THEN "restore" ELSE "remainder"
  /\ UNCHANGED <<strategy, planLen, gi, group, applied, committed_chunks,
                 file_contents, tree, indexc, head, created, outcome,
                 commit_time, outsideApply>>

\* commit.rs:998-1007  every file whose content differs from its saved
\* original is written back; a failing write returns at once
RestoreOriginals ==
  /\ apc = "restore"
  /\ LET differing == {f \in Files : UnitsOf(f) # {} /\ tree[f] # Original(f)}
     IN \E restored \in SUBSET differing :
          /\ tree' = [f \in Files |-> IF f \in restored THEN Original(f) ELSE tree[f]]
          /\ apc' = IF restored = differing THEN "remainder" ELSE "done_err"
  /\ UNCHANGED <<strategy, planLen, gi, group, applied, committed_chunks,
                 file_contents, indexc, head, created, outcome, commit_time,
                 outsideApply>>

\* commit.rs:490-529, 724-758, 1009-1047  what is left uncommitted is offered
\* as one more commit (create_commit: no schedule entry); the dialogue, the
\* message and the commit may fail
Remainder ==
  /\ apc = "remainder"
  /\ IF \A f \in Files : tree[f] = head[f] /\ indexc[f] = head[f]
     THEN apc' = "done_ok" /\ UNCHANGED <<indexc, head, created, commit_time>>
     ELSE \E confirm \in {"yes", "no", "fails"}, commit_ok \in BOOLEAN :
            CASE confirm = "no" ->
                   apc' = "done_ok" /\ UNCHANGED <<indexc, head, created, commit_time>>
              [] confirm = "fails" ->
                   apc' = "done_err" /\ UNCHANGED <<indexc, head, created, commit_time>>
              [] confirm = "yes" ->
                   /\ indexc' = tree
                   /\ IF tree = head
                      THEN apc' = "done_ok" /\ UNCHANGED <<head, created, commit_time>>
                      ELSE IF commit_ok
                           THEN /\ head' = tree /\ created' = created + 1
                                /\ commit_time' = SignedAt(ImplicitNow)
                                /\ apc' = "done_ok"
                           ELSE /\ apc' = "done_err"
                                /\ UNCHANGED <<head, created, commit_time>>
  /\ UNCHANGED <<strategy, planLen, gi, group, applied, committed_chunks,
                 file_contents, tree, outcome, outsideApply>>

ApplyNext ==
  \/ AtomicGroup \/ GranularGroup \/ RealisticGroup
  \/ LoopEnd \/ RestoreOriginals \/ Remainder

SpecApply == ApplyInit /\ [][ApplyNext]_vars

(***************************************************************************)
(* One call of AiClient::send_message, attempt by attempt:                 *)
(* src/core/ai.rs:312-381                                                  *)
(***************************************************************************)
\* core/ai.rs: const BASE_DELAY_MS
BASE_DELAY_MS == 1000

\* core/ai.rs: const MAX_DELAY_MS
MAX_DELAY_MS == 30000

\* What one POST may come back with.  code 0: no HTTP response (send() gave
\* Err); else the HTTP status.  body tells responses apart; a success
\* response with body 0 does not parse as a ClaudeResponse.
Responses == [code : {0, 200, 401, 429, 500}, body : 0..2]

\* ai.rs:326  for attempt in 0..MAX_RETRIES (the last value left out)
AttemptsExclusive == 0..(MAX_RETRIES - 1)

\* ai.rs:326  for attempt in 0..=MAX_RETRIES
Attempts == 0..MAX_RETRIES

\* A sleep before the third attempt only.
SleepsBeforeLate(a) == a > 1

\* ai.rs:327  if attempt > 0
SleepsBefore(a) == a > 0

\* Every error status is retried.
RetryableStatusAll(code) == code >= 400

\* ai.rs:366  if status.as_u16() == 429 || status.as_u16() >= 500
RetryableStatus(code) == code = 429 \/ code >= 500

\* ai.rs:353  status.is_success()
IsSuccess(code) == code >= 200 /\ code <= 299

\* The number of send_message calls made one after the other.
MaxCalls == 2

\* The delay a call starts with, kept from the call before.
FirstDelayCarried(left_behind) == left_behind

\* ai.rs:324  let mut delay_ms = BASE_DELAY_MS
FirstDelay(left_behind) == BASE_DELAY_MS

\* The variables of the other parts, which a send_message call leaves alone.
outsideSend == <<lockVars, watchVars, applyVars, mergeVars, spreadVars, parseVars, chunkVars,
    squashVars, watcherVars, flushVars, splitVars, timesVars>>

SendInit ==
  /\ spc = "top"
  /\ attempt = 0
  /\ delay_ms = BASE_DELAY_MS
  /\ last_error = <<>>
  /\ requests = 0 /\ sleeps = <<>> /\ responses = <<>> /\ ret = <<>>
  /\ calls = 1
  /\ LockIdle /\ WatchIdle /\ ApplyIdle /\ MergeIdle /\ SpreadIdle /\ ParseIdle /\ ChunkIdle
  /\ SquashIdle
  /\ WatcherIdle
  /\ FlushIdle
  /\ SplitIdle
  /\ TimesIdle

\* ai.rs:326-340  the top of an iteration: the sleep when it is a retry, the
\* doubling of delay_ms, then the POST goes out
SendAttempt ==
  /\ spc = "top" /\ attempt \in Attempts
  /\ IF SleepsBefore(attempt)
     THEN /\ sleeps' = Append(sleeps, delay_ms)
          /\ delay_ms' = Min(delay_ms * 2, MAX_DELAY_MS)
     ELSE UNCHANGED <<sleeps, delay_ms>>
  /\ requests' = requests + 1
  /\ spc' = "await"
  /\ UNCHANGED <<attempt, last_error, responses, ret, calls, outsideSend>>

\* ai.rs:341-373  the POST comes back
SendResponse ==
  /\ spc = "await"
  /\ \E r \in Responses :
       /\ responses' = Append(responses, r)
       /\ IF r.code = 0
          THEN \* network errors are retryable: continue
               /\ last_error' = <<r>>
               /\ attempt' = attempt + 1 /\ spc' = "top" /\ ret' = ret
          ELSE IF IsSuccess(r.code)
          THEN /\ ret' = IF r.body # 0 THEN [ok |-> TRUE, payload |-> r.body]
                         ELSE [ok |-> FALSE, err |-> "parse", of |-> r]
               /\ spc' = "returned" /\ UNCHANGED <<last_error, attempt>>
          ELSE IF RetryableStatus(r.code)
          THEN /\ last_error' = <<r>>
               /\ attempt' = attempt + 1 /\ spc' = "top" /\ ret' = ret
          ELSE \* bail!("Claude API error ..")
               /\ ret' = [ok |-> FALSE, err |-> "api", of |-> r]
               /\ spc' = "returned" /\ UNCHANGED <<last_error, attempt>>
  /\ UNCHANGED <<delay_ms, requests, sleeps, calls, outsideSend>>

\* ai.rs:376-380  all retries exhausted: bail! with last_error
SendExhausted ==
  /\ spc = "top" /\ attempt \notin Attempts
  /\ ret' = [ok |-> FALSE, err |-> "exhausted", of |-> last_error]
  /\ spc' = "returned"
  /\ UNCHANGED <<attempt, delay_ms, last_error, requests, sleeps, responses,
                 calls, outsideSend>>

\* ai.rs:323-324  a further call: `let mut last_error = None; let mut
\* delay_ms = BASE_DELAY_MS;`, with the counts of the call started afresh
SendCall ==
  /\ spc = "returned"
  /\ calls < MaxCalls
  /\ calls' = calls + 1
  /\ spc' = "top"
  /\ attempt' = 0
  /\ delay_ms' = FirstDelay(delay_ms)
  /\ last_error' = <<>>
  /\ requests' = 0 /\ sleeps' = <<>> /\ responses' = <<>> /\ ret' = <<>>
  /\ UNCHANGED outsideSend

SendNext == SendAttempt \/ SendResponse \/ SendExhausted \/ SendCall

SpecSend == SendInit /\ [][SendNext]_vars

(***************************************************************************)
(* merge_groups_to_target: src/gitbahn-mcp/src/main.rs:849-877             *)
(* A SplitGroup is modelled by its files and its line_count; description   *)
(* and hint are joined the same way as files.                              *)
(***************************************************************************)
\* The largest number of groups passed in.
MaxMergeGroups == 5

\* The largest line_count of a group passed in.
MaxLineCount == 2

\* main.rs:300-309  the groups the callers build: one file each
\* with any line counts; the k-th names unit k.
SingleGroups(n) ==
  {[k \in 1..n |-> [files |-> <<k>>, line_count |-> lc[k]]] :
     lc \in [1..n -> 0..MaxLineCount]}

\* main.rs:858-866  the first adjacent pair of least combined line_count
\* (min_size starts at usize::MAX; `combined < min_size` keeps the first)
MergeIdx(gs) ==
  CHOOSE i \in 1..(Len(gs) - 1) :
    \A j \in 1..(Len(gs) - 1) :
      LET ci == gs[i].line_count + gs[i + 1].line_count
          cj == gs[j].line_count + gs[j + 1].line_count
      IN ci < cj \/ (ci = cj /\ i <= j)

\* The merged group keeps the line count of its first part.
MergedLeftCount(g, next) ==
  [files |-> g.files \o next.files, line_count |-> g.line_count]

\* The pair folded with the files of the second group lost.
MergedDropping(g, next) ==
  [files |-> g.files, line_count |-> g.line_count + next.line_count]

\* main.rs:869-871  files.extend(next.files); line_count += next.line_count
Merged(g, next) ==
  [files |-> g.files \o next.files, line_count |-> g.line_count + next.line_count]

outsideMerge == <<lockVars, watchVars, applyVars, sendVars, spreadVars, parseVars, chunkVars,
    squashVars, watcherVars, flushVars, splitVars, timesVars>>

MergeInit ==
  /\ mpc = "entry"
  /\ \E n \in 0..MaxMergeGroups : input_groups \in SingleGroups(n)
  /\ target \in 0..(MaxMergeGroups + 1)
  /\ groups = input_groups
  /\ LockIdle /\ WatchIdle /\ ApplyIdle /\ SendIdle /\ SpreadIdle /\ ParseIdle /\ ChunkIdle
  /\ SquashIdle
  /\ WatcherIdle
  /\ FlushIdle
  /\ SplitIdle
  /\ TimesIdle

\* main.rs:850-852  if groups.len() <= target { return groups; }
MergeEntry ==
  /\ mpc = "entry"
  /\ mpc' = IF Len(groups) <= target THEN "returned" ELSE "loop"
  /\ UNCHANGED <<input_groups, target, groups, outsideMerge>>

\* main.rs:855-874  one iteration of `while groups.len() > target`; with a
\* single group left, groups.remove(merge_idx + 1) is out of bounds and panics
MergeStep ==
  /\ mpc = "loop" /\ Len(groups) > target
  /\ IF Len(groups) = 1
     THEN mpc' = "panicked" /\ groups' = groups
     ELSE LET i == MergeIdx(groups)
          IN /\ groups' = SubSeq(groups, 1, i - 1)
                            \o <<Merged(groups[i], groups[i + 1])>>
                            \o SubSeq(groups, i + 2, Len(groups))
             /\ mpc' = mpc
  /\ UNCHANGED <<input_groups, target, outsideMerge>>

\* main.rs:855, 876  the loop ends: groups is returned
MergeReturn ==
  /\ mpc = "loop" /\ Len(groups) <= target
  /\ mpc' = "returned"
  /\ UNCHANGED <<input_groups, target, groups, outsideMerge>>

MergeNext == MergeEntry \/ MergeStep \/ MergeReturn

SpecMerge == MergeInit /\ [][MergeNext]_vars

(***************************************************************************)
(* Spread timestamps: parse_duration and generate_spread_timestamps of     *)
(* src/commands/commit.rs (src/commands/auto.rs repeats both functions).   *)
(***************************************************************************)
\* Further characters of the --spread text: the signs and the unit letters.
MINUS == 13
PLUS == 14
LD == 15
LH == 16
LM == 17
LS == 18

\* The largest number of commits scheduled at once.
MaxCount == 5

\* i64 division and the `as i64` cast of a quotient: truncation toward
\* zero (b > 0).
TruncDiv(a, b) == IF a >= 0 THEN a \div b ELSE -((-a) \div b)

Max(a, b) == IF a >= b THEN a ELSE b

\* str::parse::<i64>: an optional sign, then decimal digits, at least one.
ParseI64(s) ==
  LET digits == IF s # <<>> /\ Head(s) \in {MINUS, PLUS} THEN Tail(s) ELSE s
      ok == digits # <<>> /\ \A i \in 1..Len(digits) : IsDigit(digits[i])
  IN  [ok |-> ok,
       val |-> IF ~ok THEN 0
               ELSE IF Head(s) = MINUS THEN -DigitsValue(digits)
               ELSE DigitsValue(digits)]

\* The seconds of one unit; the hour is the default.
SecondsPer(u) ==
  CASE u = LD -> 86400
    [] u = LH -> 3600
    [] u = LM -> 60
    [] u = LS -> 1
    [] OTHER -> 3600

\* parse_duration: the trimmed text, its unit suffix split off, the rest
\* parsed as i64 and multiplied by the unit.
ParseDuration(text) ==
  LET s == Trim(text)
      suffixed == s # <<>> /\ s[Len(s)] \in {LD, LH, LM, LS}
      num_str == IF suffixed THEN SubSeq(s, 1, Len(s) - 1) ELSE s
      u == IF suffixed THEN s[Len(s)] ELSE LH
      num == ParseI64(num_str)
  IN  [ok |-> num.ok, seconds |-> num.val * SecondsPer(u)]

\* The --spread texts tried: 2h, -2h, 0, 1, 1m, 4m, 59s, " 100s", -1s, 0d
\* and "h", which has no number.
SpreadTexts ==
  { <<2, LH>>, <<MINUS, 2, LH>>, <<0>>, <<1>>, <<1, LM>>, <<4, LM>>,
    <<5, 9, LS>>, <<SP, 1, 0, 0, LS>>, <<MINUS, 1, LS>>, <<0, LD>>, <<LH>> }

\* The start times tried.
Starts == {0, 100000}

\* rng.gen_range(0.5..1.5), as fractions: the least value, the middle and
\* one near the upper end.
Variances == { <<1, 2>>, <<1, 1>>, <<149, 100>> }

\* (base_interval as f64 * variance) as i64
Interval(base_interval, variance) ==
  TruncDiv(base_interval * variance[1], variance[2])

\* rng.gen_range(0..60): the least and the greatest value.
ExtraSecs == {0, 59}

\* The test that starts the rescaling.
OvershotNever(actual_duration, total) == FALSE

Overshot(actual_duration, total) == actual_duration > total

\* (offset as f64 * scale) as i64 with scale = total / actual_duration: the
\* quotient truncated toward zero.  Where the quotient is a whole number
\* other than 0 the rounded product may fall short of it, and the cast
\* then yields the next integer toward zero (loss).
ScaledOffset(offset, total, actual_duration, loss) ==
  LET p == offset * total
      q == TruncDiv(p, actual_duration)
  IN  IF loss /\ p # 0 /\ q * actual_duration = p
      THEN (IF q > 0 THEN q - 1 ELSE q + 1)
      ELSE q

\* The vectors the rescaling loop can leave: the first timestamp is
\* skipped, every other one is moved to start + scaled offset.
Rescaled(ts, st, total) ==
  LET actual_duration == ts[Len(ts)] - st
  IN  { [k \in 1..Len(ts) |->
           IF k = 1 THEN ts[1]
           ELSE st + ScaledOffset(ts[k] - st, total, actual_duration, loss[k])] :
        loss \in [1..Len(ts) -> BOOLEAN] }

outsideSpread == <<lockVars, watchVars, applyVars, sendVars, mergeVars, parseVars, chunkVars,
    squashVars, watcherVars, flushVars, splitVars, timesVars>>

SpreadInit ==
  /\ tpc = "entry"
  /\ spread \in SpreadTexts
  /\ start \in Starts
  /\ count \in 0..MaxCount
  /\ total_duration_secs = 0
  /\ ti = 0
  /\ current = 0
  /\ timestamps = <<>>
  /\ LockIdle /\ WatchIdle /\ ApplyIdle /\ SendIdle /\ MergeIdle /\ ParseIdle /\ ChunkIdle
  /\ SquashIdle
  /\ WatcherIdle
  /\ FlushIdle
  /\ SplitIdle
  /\ TimesIdle

\* The caller: parse_duration(spread_str)?, then the call.
SpreadParse ==
  /\ tpc = "entry"
  /\ LET r == ParseDuration(spread)
     IN  IF r.ok
         THEN /\ total_duration_secs' = r.seconds
              /\ tpc' = "generate"
         ELSE /\ tpc' = "rejected"
              /\ UNCHANGED total_duration_secs
  /\ UNCHANGED <<spread, start, count, ti, current, timestamps, outsideSpread>>

\* count == 0 and count == 1 return at once; otherwise the loop begins
\* with current = start.
SpreadEntry ==
  /\ tpc = "generate"
  /\ IF count = 0
     THEN tpc' = "returned" /\ timestamps' = <<>> /\ UNCHANGED current
     ELSE IF count = 1
     THEN tpc' = "returned" /\ timestamps' = <<start>> /\ UNCHANGED current
     ELSE tpc' = "loop" /\ timestamps' = <<>> /\ current' = start
  /\ ti' = 0
  /\ UNCHANGED <<spread, start, count, total_duration_secs, outsideSpread>>

\* One iteration of `for i in 0..count`: push current, then, except after
\* the last push, advance it by max(interval, 60) + extra_secs.
SpreadPush ==
  /\ tpc = "loop"
  /\ ti < count
  /\ timestamps' = Append(timestamps, current)
  /\ IF ti < count - 1
     THEN \E variance \in Variances, extra_secs \in ExtraSecs :
            LET base_interval == TruncDiv(total_duration_secs, count)
                interval == Interval(base_interval, variance)
            IN  current' = current + Max(interval, 60) + extra_secs
     ELSE UNCHANGED current
  /\ ti' = ti + 1
  /\ UNCHANGED <<tpc, spread, start, count, total_duration_secs, outsideSpread>>

\* After the loop: rescale when the last timestamp overshot, and return.
SpreadReturn ==
  /\ tpc = "loop"
  /\ ti = count
  /\ LET actual_duration == timestamps[Len(timestamps)] - start
     IN  IF Overshot(actual_duration, total_duration_secs)
         THEN timestamps' \in Rescaled(timestamps, start, total_duration_secs)
         ELSE UNCHANGED timestamps
  /\ tpc' = "returned"
  /\ UNCHANGED <<spread, start, count, total_duration_secs, ti, current,
                 outsideSpread>>

SpreadNext == SpreadParse \/ SpreadEntry \/ SpreadPush \/ SpreadReturn

SpecSpread == SpreadInit /\ [][SpreadNext]_vars

(***************************************************************************)
(* The diff parser: parse_diff_into_hunks, count_changes and               *)
(* extract_hunk_context of src/core/git.rs.                                *)
(*                                                                         *)
(* A diff text is a sequence of pieces of text, each piece a string: the   *)
(* line feed, the blank, '+', '-', "@@", "a/", "b/" and the words between  *)
(* them are pieces of their own, so that a prefix test, a split and a      *)
(* trim are tests on pieces.                                               *)
(***************************************************************************)
\* The largest number of lines of a diff text.
MaxDiffLines == 4

EOL == "\n"
BLANK == " "

StartsWith(s, prefix) ==
  Len(s) >= Len(prefix) /\ SubSeq(s, 1, Len(prefix)) = prefix

\* The position of the first piece equal to a, 0 if there is none.
IndexOf(s, a) ==
  IF \E i \in 1..Len(s) : s[i] = a
  THEN CHOOSE i \in 1..Len(s) : s[i] = a /\ \A j \in 1..(i - 1) : s[j] # a
  ELSE 0

\* str::split(sep): the parts between the separators, empty ones kept.
RECURSIVE SplitOn(_, _)
SplitOn(s, sep) ==
  LET i == IndexOf(s, sep)
  IN  IF i = 0 THEN <<s>>
      ELSE <<SubSeq(s, 1, i - 1)>> \o SplitOn(SubSeq(s, i + 1, Len(s)), sep)

\* str::lines(): the parts between line feeds; a final line feed ends the
\* last line and starts no further one.
DiffLines(s) ==
  LET parts == SplitOn(s, EOL)
  IN  IF parts[Len(parts)] = <<>> THEN SubSeq(parts, 1, Len(parts) - 1)
      ELSE parts

\* str::trim_start_matches(a): every leading a dropped.
RECURSIVE TrimStartMatches(_, _)
TrimStartMatches(s, a) ==
  IF s # <<>> /\ Head(s) = a THEN TrimStartMatches(Tail(s), a) ELSE s

RECURSIVE TrimEndMatches(_, _)
TrimEndMatches(s, a) ==
  IF s # <<>> /\ s[Len(s)] = a
  THEN TrimEndMatches(SubSeq(s, 1, Len(s) - 1), a) ELSE s

\* str::trim on these texts, whose only white space within a line is the
\* blank.
TrimBlanks(s) == TrimEndMatches(TrimStartMatches(s, BLANK), BLANK)

\* The prefixes the parser tests.
DiffGit == <<"diff", BLANK, "--git">>
NewFileMode == <<"new", BLANK, "file", BLANK, "mode">>
DeletedFileMode == <<"deleted", BLANK, "file", BLANK, "mode">>
AtAt == <<"@@">>
Plus3 == <<"+", "+", "+">>
Minus3 == <<"-", "-", "-">>

IsAddition(line) == StartsWith(line, <<"+">>) /\ ~StartsWith(line, Plus3)

IsDeletion(line) == StartsWith(line, <<"-">>) /\ ~StartsWith(line, Minus3)

\* count_changes
CountChanges(content) ==
  LET ls == DiffLines(content)
  IN  [additions |-> Cardinality({i \in 1..Len(ls) : IsAddition(ls[i])}),
       deletions |-> Cardinality({i \in 1..Len(ls) :
                                     ~IsAddition(ls[i]) /\ IsDeletion(ls[i])})]

\* slice.join(sep)
RECURSIVE Join(_, _)
Join(parts, sep) ==
  IF parts = <<>> THEN <<>>
  ELSE IF Len(parts) = 1 THEN parts[1]
  ELSE parts[1] \o sep \o Join(Tail(parts), sep)

NonEmpty(s) == s # <<>>

\* extract_hunk_context
ExtractHunkContext(header, content) ==
  LET parts == SplitOn(header, "@@")
      func_context == IF Len(parts) >= 3 THEN TrimBlanks(parts[3]) ELSE <<>>
      added == SelectSeq(DiffLines(content), IsAddition)
      taken == SubSeq(added, 1, Min(3, Len(added)))
      stripped == [i \in 1..Len(taken) |->
                     TrimBlanks(TrimStartMatches(taken[i], "+"))]
      added_lines == SelectSeq(stripped, NonEmpty)
  IN  IF func_context # <<>>
      THEN func_context \o <<":", BLANK>> \o Join(added_lines, <<";", BLANK>>)
      ELSE Join(added_lines, <<";", BLANK>>)

\* The file path taken from a "diff --git" line: the fourth part of
\* line.split(' ') with every leading "b/" dropped; the old path is kept
\* when the line has fewer than four parts.
PathOf(line, old) ==
  LET parts == SplitOn(line, BLANK)
  IN  IF Len(parts) >= 4 THEN TrimStartMatches(parts[4], "b/") ELSE old

\* `let mut hunk_id = 0`: the first id of a call, whatever an earlier call
\* left behind.
FirstHunkIdCarried(left_behind) == left_behind

FirstHunkId(left_behind) == 0

\* `is_new_file = false; is_deleted = false;` at a "diff --git" line: the
\* flag of the new file section, whatever the flag of the last one was.
FlagAtFileStartCarried(flag) == flag

FlagAtFileStart(flag) == FALSE

\* The paths tried: f and "my f".
Paths == { <<"f">>, <<"my", BLANK, "f">> }

\* The line git writes first for a file X.
GitLine(X) == DiffGit \o <<BLANK, "a/">> \o X \o <<BLANK, "b/">> \o X

\* The lines the diff texts are made of.
LinePool ==
  {GitLine(X) : X \in Paths} \cup
  { NewFileMode \o <<BLANK, "100644">>,
    DeletedFileMode \o <<BLANK, "100644">>,
    <<"-", "-", "-", BLANK, "a/", "f">>,
    <<"@@", BLANK, "-1", BLANK, "+1", BLANK, "@@">>,
    <<"@@", BLANK, "-9", BLANK, "+9", BLANK, "@@", BLANK, "fn">>,
    <<"+", "x">>,
    <<"-", "x">>,
    <<BLANK, "x">> }

\* Every line ended by a line feed.
RECURSIVE Text(_)
Text(ls) == IF ls = <<>> THEN <<>> ELSE Head(ls) \o <<EOL>> \o Text(Tail(ls))

DiffTexts ==
  UNION {{Text(ls) : ls \in [1..n -> LinePool]} : n \in 0..MaxDiffLines}

outsideParse ==
  <<lockVars, watchVars, applyVars, sendVars, mergeVars, spreadVars,
    chunkVars, squashVars, watcherVars, flushVars, splitVars, timesVars>>

ParseInit ==
  /\ ppc = "entry"
  /\ diff \in DiffTexts
  /\ lines_left = <<>>
  /\ hunks = <<>>
  /\ current_file = <<>>
  /\ is_new_file = FALSE
  /\ is_deleted = FALSE
  /\ current_hunk_header = <<>>
  /\ current_hunk_content = <<>>
  /\ hunk_id = 0
  /\ in_hunk = FALSE
  /\ again = FALSE
  /\ earlier = <<>>
  /\ LockIdle /\ WatchIdle /\ ApplyIdle /\ SendIdle /\ MergeIdle /\ SpreadIdle /\ ChunkIdle
  /\ SquashIdle
  /\ WatcherIdle
  /\ FlushIdle
  /\ SplitIdle
  /\ TimesIdle

\* "Save previous hunk if exists": the vector after the push, if any.
Flushed ==
  IF in_hunk /\ current_hunk_content # <<>>
  THEN LET c == CountChanges(current_hunk_content)
       IN  Append(hunks,
                  [id |-> hunk_id,
                   file_path |-> current_file,
                   is_new_file |-> is_new_file,
                   is_deleted |-> is_deleted,
                   header |-> current_hunk_header,
                   content |-> current_hunk_content,
                   additions |-> c.additions,
                   deletions |-> c.deletions,
                   context |-> ExtractHunkContext(current_hunk_header,
                                                  current_hunk_content)])
  ELSE hunks

\* The id after "Save previous hunk if exists".
IdAfterFlush ==
  IF in_hunk /\ current_hunk_content # <<>> THEN hunk_id + 1 ELSE hunk_id

\* The locals at the head of the function.
ParseEntry ==
  /\ ppc = "entry"
  /\ hunks' = <<>>
  /\ current_file' = <<>>
  /\ is_new_file' = FALSE
  /\ is_deleted' = FALSE
  /\ current_hunk_header' = <<>>
  /\ current_hunk_content' = <<>>
  /\ hunk_id' = FirstHunkId(hunk_id)
  /\ in_hunk' = FALSE
  /\ lines_left' = DiffLines(diff)
  /\ ppc' = "lines"
  /\ UNCHANGED <<diff, again, earlier, outsideParse>>

\* One iteration of `for line in diff.lines()`.
ParseLine ==
  /\ ppc = "lines"
  /\ lines_left # <<>>
  /\ LET line == Head(lines_left)
     IN  IF StartsWith(line, DiffGit)
         THEN /\ hunks' = Flushed
              /\ hunk_id' = IdAfterFlush
              /\ current_file' = PathOf(line, current_file)
              /\ is_new_file' = FlagAtFileStart(is_new_file)
              /\ is_deleted' = FlagAtFileStart(is_deleted)
              /\ in_hunk' = FALSE
              /\ current_hunk_content' = <<>>
              /\ current_hunk_header' = <<>>
         ELSE IF StartsWith(line, NewFileMode)
         THEN /\ is_new_file' = TRUE
              /\ UNCHANGED <<hunks, hunk_id, current_file, is_deleted, in_hunk,
                             current_hunk_content, current_hunk_header>>
         ELSE IF StartsWith(line, DeletedFileMode)
         THEN /\ is_deleted' = TRUE
              /\ UNCHANGED <<hunks, hunk_id, current_file, is_new_file, in_hunk,
                             current_hunk_content, current_hunk_header>>
         ELSE IF StartsWith(line, AtAt)
         THEN /\ hunks' = Flushed
              /\ hunk_id' = IdAfterFlush
              /\ current_hunk_header' = line
              /\ current_hunk_content' = line \o <<EOL>>
              /\ in_hunk' = TRUE
              /\ UNCHANGED <<current_file, is_new_file, is_deleted>>
         ELSE IF in_hunk
         THEN /\ current_hunk_content' = current_hunk_content \o line \o <<EOL>>
              /\ UNCHANGED <<hunks, hunk_id, current_file, is_new_file,
                             is_deleted, in_hunk, current_hunk_header>>
         ELSE UNCHANGED <<hunks, hunk_id, current_file, is_new_file, is_deleted,
                          in_hunk, current_hunk_content, current_hunk_header>>
  /\ lines_left' = Tail(lines_left)
  /\ UNCHANGED <<ppc, diff, again, earlier, outsideParse>>

\* "Don't forget the last hunk", then the return.
ParseEnd ==
  /\ ppc = "lines"
  /\ lines_left = <<>>
  /\ hunks' = Flushed
  /\ ppc' = "returned"
  /\ UNCHANGED <<diff, lines_left, current_file, is_new_file, is_deleted,
                 current_hunk_header, current_hunk_content, hunk_id, in_hunk,
                 again, earlier, outsideParse>>

\* The caller keeps the result and calls the function again on the same
\* text.
ParseAgain ==
  /\ ppc = "returned"
  /\ ~again
  /\ again' = TRUE
  /\ earlier' = hunks
  /\ ppc' = "entry"
  /\ UNCHANGED <<diff, lines_left, hunks, current_file, is_new_file,
                 is_deleted, current_hunk_header, current_hunk_content,
                 hunk_id, in_hunk, outsideParse>>

ParseNext == ParseEntry \/ ParseLine \/ ParseEnd \/ ParseAgain

SpecParse == ParseInit /\ [][ParseNext]_vars

(***************************************************************************)
(* The file chunker: parse_single_file_into_chunks, parse_python_file,     *)
(* parse_rust_file, parse_js_file, parse_go_file, parse_generic_file and   *)
(* create_chunk of src/core/git.rs.                                        *)
(*                                                                         *)
(* A line is given by what the scanners test of it: the declaration it     *)
(* starts with, its indentation and the braces it holds.  The lines of a   *)
(* file are chosen as the scan reaches them: freely in the head and the    *)
(* tail of the file, of one kind (filler) in between.  A chunk is kept     *)
(* with its line range and type; its text and description are left out.    *)
(***************************************************************************)
\* The number of freely chosen lines at the start and at the end of a file.
MaxHead == 1
MaxTail == 3

\* "For small files (< 50 lines), keep as single chunk"
SmallFile == 50
\* parse_generic_file: chunk_size
ChunkSize == 50
\* A method starts a chunk of its own only more than 5 lines into the
\* section; a struct, impl or fn only more than 2 lines into it.
MethodSpan == 5
SectionSpan == 2

Exts == {"py", "rs", "js", "go", "txt"}

\* The file lengths tried.
Lengths == {0, 1, SmallFile - 1, SmallFile, SmallFile + 1, 2 * ChunkSize + 1}

\* A line: decl is "import" (import, from, use), "package", "class" (class,
\* struct, type), "impl", "fn" (def, fn, function, func), "const" (a
\* constant), "comment" (also an attribute or a lone parenthesis), "blank"
\* or "code"; open and close count its braces.
Line(decl, indent, open, close) ==
  [decl |-> decl, indent |-> indent, open |-> open, close |-> close]

PyKinds ==
  { Line("import", 0, 0, 0), Line("class", 0, 0, 0), Line("fn", 0, 0, 0),
    Line("fn", 4, 0, 0), Line("const", 0, 0, 0), Line("comment", 0, 0, 0),
    Line("code", 4, 0, 0) }

BraceKinds ==
  { Line("import", 0, 0, 0), Line("class", 0, 1, 0), Line("fn", 0, 1, 0),
    Line("fn", 0, 1, 1), Line("impl", 0, 1, 0), Line("const", 0, 0, 0),
    Line("code", 0, 0, 1) }

Kinds(e) == IF e = "py" THEN PyKinds ELSE BraceKinds

Fillers == { Line("blank", 0, 0, 0), Line("code", 4, 0, 0) }

\* The lines that may stand at position i of the file.
LinesAt(i) ==
  IF i < MaxHead \/ i >= total_lines - MaxTail THEN Kinds(ext) ELSE {filler}

\* The last line of the section that ends where line i starts a new one.
SectionEndAtBoundary(i) == i

SectionEnd(i) == i - 1

\* create_chunk, for the lines start..end counted from 0.
CreateChunk(from, to, chunk_type) ==
  [start_line |-> from + 1, end_line |-> to + 1, chunk_type |-> chunk_type,
   line_count |-> to - from + 1]

\* "Save previous section": `if i > current_section_start + span`.
Saved(i, span, chunk_type) ==
  IF i > current_section_start + span
  THEN Append(chunks, CreateChunk(current_section_start, SectionEnd(i),
                                  chunk_type))
  ELSE chunks

\* The lines the transition out of the imports passes over.
PassedOver(l) ==
  \/ l.decl \in {"import", "blank", "comment"}
  \/ ext = "go" /\ l.decl = "package"

\* The type of the section after the imports.
AfterImports(l) ==
  IF l.decl = "const" /\ l.indent = 0 /\ ext # "js" THEN "Constants"
  ELSE "Other"

\* The type of the section a declaration starts.
TypeOfDecl(l) ==
  IF l.decl = "class" THEN "ClassDefinition"
  ELSE IF l.decl = "fn" THEN "Function"
  ELSE "Other"

\* The test for a major section boundary in parse_rust_file, parse_js_file
\* and parse_go_file, depth being the brace depth after the line.
Boundary(l, depth) ==
  IF ext = "rs"
  THEN /\ depth = 0 \/ (depth = 1 /\ l.open > 0)
       /\ l.decl \in {"class", "impl", "fn"}
  ELSE /\ depth = 0
       /\ l.decl \in {"class", "fn"}

outsideChunk ==
  <<lockVars, watchVars, applyVars, sendVars, mergeVars, spreadVars,
    parseVars, squashVars, watcherVars, flushVars, splitVars, timesVars>>

ChunkInit ==
  /\ cpc = "entry"
  /\ ext \in Exts
  /\ total_lines \in Lengths
  /\ filler \in Fillers
  /\ line_i = 0
  /\ current_section_start = 0
  /\ current_section_type = "Imports"
  /\ in_class = FALSE
  /\ class_indent = 0
  /\ brace_depth = 0
  /\ chunks = <<>>
  /\ LockIdle /\ WatchIdle /\ ApplyIdle /\ SendIdle /\ MergeIdle
  /\ SpreadIdle /\ ParseIdle
  /\ SquashIdle
  /\ WatcherIdle
  /\ FlushIdle
  /\ SplitIdle
  /\ TimesIdle

\* parse_single_file_into_chunks: one chunk for a small file, else the
\* scanner of the extension.
ChunkEntry ==
  /\ cpc = "entry"
  /\ IF total_lines < SmallFile
     THEN /\ chunks' = <<[start_line |-> 1, end_line |-> total_lines,
                          chunk_type |-> "FullFile",
                          line_count |-> total_lines]>>
          /\ cpc' = "returned"
     ELSE /\ chunks' = <<>>
          /\ cpc' = IF ext \in {"py", "rs", "js", "go"} THEN "scan"
                    ELSE "generic"
  /\ UNCHANGED <<ext, total_lines, filler, line_i, current_section_start,
                 current_section_type, in_class, class_indent, brace_depth,
                 outsideChunk>>

\* One iteration of the loop of parse_python_file.
ScanPy ==
  /\ cpc = "scan"
  /\ ext = "py"
  /\ line_i < total_lines
  /\ \E l \in LinesAt(line_i) :
       IF l.decl = "class"
       THEN /\ chunks' = Saved(line_i, 0, current_section_type)
            /\ in_class' = TRUE
            /\ class_indent' = l.indent
            /\ current_section_start' = line_i
            /\ current_section_type' = "ClassDefinition"
       ELSE IF l.decl = "fn" /\ l.indent = 0
       THEN /\ chunks' = Saved(line_i, 0, current_section_type)
            /\ in_class' = FALSE
            /\ current_section_start' = line_i
            /\ current_section_type' = "Function"
            /\ UNCHANGED class_indent
       ELSE IF in_class /\ l.decl = "fn" /\ l.indent > class_indent
       THEN /\ chunks' = Saved(line_i, MethodSpan, current_section_type)
            /\ IF line_i > current_section_start + MethodSpan
               THEN /\ current_section_start' = line_i
                    /\ current_section_type' = "Function"
               ELSE UNCHANGED <<current_section_start, current_section_type>>
            /\ UNCHANGED <<in_class, class_indent>>
       ELSE IF current_section_type = "Imports" /\ ~PassedOver(l)
       THEN /\ chunks' = Saved(line_i, 0, "Imports")
            /\ current_section_start' = line_i
            /\ current_section_type' = AfterImports(l)
            /\ UNCHANGED <<in_class, class_indent>>
       ELSE UNCHANGED <<chunks, current_section_start, current_section_type,
                        in_class, class_indent>>
  /\ line_i' = line_i + 1
  /\ UNCHANGED <<cpc, ext, total_lines, filler, brace_depth, outsideChunk>>

\* One iteration of the loop of parse_rust_file, parse_js_file or
\* parse_go_file: the brace count, the section boundary, then the
\* transition out of the imports.
ScanBrace ==
  /\ cpc = "scan"
  /\ ext \in {"rs", "js", "go"}
  /\ line_i < total_lines
  /\ \E l \in LinesAt(line_i) :
       LET depth == brace_depth + l.open - l.close
           cut == Boundary(l, depth) /\ line_i > current_section_start + SectionSpan
           type1 == IF Boundary(l, depth) THEN TypeOfDecl(l)
                    ELSE current_section_type
           leave == type1 = "Imports" /\ ~PassedOver(l)
       IN  /\ brace_depth' = depth
           /\ chunks' =
                IF Boundary(l, depth)
                THEN Saved(line_i, SectionSpan, current_section_type)
                ELSE IF leave THEN Saved(line_i, 0, "Imports")
                ELSE chunks
           /\ current_section_start' =
                IF cut \/ leave THEN line_i ELSE current_section_start
           /\ current_section_type' =
                IF leave THEN AfterImports(l) ELSE type1
  /\ line_i' = line_i + 1
  /\ UNCHANGED <<cpc, ext, total_lines, filler, in_class, class_indent,
                 outsideChunk>>

\* After the loop of a scanner: the last section, and a single chunk is
\* the full file.
ScanFinish ==
  /\ cpc = "scan"
  /\ line_i = total_lines
  /\ LET all == IF current_section_start < total_lines
                THEN Append(chunks,
                            CreateChunk(current_section_start, total_lines - 1,
                                        current_section_type))
                ELSE chunks
     IN  chunks' = IF Len(all) = 1
                   THEN <<[all[1] EXCEPT !.chunk_type = "FullFile"]>>
                   ELSE all
  /\ cpc' = "returned"
  /\ UNCHANGED <<ext, total_lines, filler, line_i, current_section_start,
                 current_section_type, in_class, class_indent, brace_depth,
                 outsideChunk>>

\* One iteration of the loop of parse_generic_file.
GenericStep ==
  /\ cpc = "generic"
  /\ current_section_start < total_lines
  /\ LET from == current_section_start
         to == Min(from + ChunkSize, total_lines) - 1
     IN  /\ chunks' = Append(chunks,
                             [start_line |-> from + 1, end_line |-> to + 1,
                              chunk_type |-> IF from = 0 THEN "FullFile"
                                             ELSE "Other",
                              line_count |-> to - from + 1])
         /\ current_section_start' = to + 1
  /\ UNCHANGED <<cpc, ext, total_lines, filler, line_i, current_section_type,
                 in_class, class_indent, brace_depth, outsideChunk>>

GenericReturn ==
  /\ cpc = "generic"
  /\ current_section_start >= total_lines
  /\ cpc' = "returned"
  /\ UNCHANGED <<ext, total_lines, filler, line_i, current_section_start,
                 current_section_type, in_class, class_indent, brace_depth,
                 chunks, outsideChunk>>

ChunkNext ==
  ChunkEntry \/ ScanPy \/ ScanBrace \/ ScanFinish \/ GenericStep
    \/ GenericReturn

SpecChunk == ChunkInit /\ [][ChunkNext]_vars

(***************************************************************************)
(* One call of maybe_squash_commits (src/commands/auto.rs) with            *)
(* count_unpushed_commits and squash_commits (src/core/git.rs).            *)
(*                                                                         *)
(* The history is the first-parent chain of HEAD, HEAD first, down to the  *)
(* root commit.  A commit is `pushed` when the upstream branch reaches it; *)
(* `side` is the number of commits absent from the upstream that it        *)
(* reaches through its second parent only (a merged local branch).         *)
(***************************************************************************)
\* The largest number of commits on the first-parent chain.
MaxChain == 3

\* The largest number of unpushed commits a merge brings in.
MaxSide == 1

Commits == [pushed : BOOLEAN, side : 0..MaxSide]

\* The histories git can hold: what the upstream reaches, it reaches with all
\* its ancestors.
Histories ==
  {h \in UNION {[1..n -> Commits] : n \in 0..MaxChain} :
     /\ \A k \in DOMAIN h : h[k].pushed => h[k].side = 0
     /\ \A k \in DOMAIN h : \A j \in DOMAIN h : (k < j /\ h[k].pushed) => h[j].pushed}

\* git.rs:1596-1603  revwalk.push(head), revwalk.hide(upstream), count(): every
\* commit HEAD reaches and the upstream does not, through any parent; without
\* an upstream (1607-1611) every commit.
RECURSIVE CountUnpushed(_)
CountUnpushed(h) ==
  IF h = <<>> THEN 0
  ELSE (IF h[1].pushed THEN 0 ELSE 1 + h[1].side) + CountUnpushed(Tail(h))

\* git.rs:1624-1629  current = current.parent(0), count - 1 times, then
\* base_parent = current.parent(0): whether both exist.
HasBase(h, n) == Len(h) > n

\* git.rs:1634-1650  the new commit holds HEAD's tree on base_parent and HEAD
\* is moved to it.
Squashed(h, n) == <<[pushed |-> FALSE, side |-> 0]>> \o SubSeq(h, n + 1, Len(h))

outsideSquash ==
  <<lockVars, watchVars, applyVars, sendVars, mergeVars, spreadVars,
    parseVars, chunkVars, watcherVars, flushVars, splitVars, timesVars>>

SquashInit ==
  /\ qpc = "entry"
  /\ history \in Histories
  /\ before = history
  /\ squash_count \in 0..MaxChain
  /\ squash_dry_run \in BOOLEAN
  /\ squash_ret = "none"
  /\ LockIdle /\ WatchIdle /\ ApplyIdle /\ SendIdle /\ MergeIdle
  /\ SpreadIdle /\ ParseIdle /\ ChunkIdle
  /\ WatcherIdle
  /\ FlushIdle
  /\ SplitIdle
  /\ TimesIdle

\* auto.rs:990-1006  the count of unpushed commits is compared with `count`;
\* get_commit_messages_for_squash may fail; the message is asked for.
SquashEntry ==
  /\ qpc = "entry"
  /\ IF CountUnpushed(history) < squash_count
     THEN qpc' = "returned" /\ squash_ret' = "ok"
     ELSE \/ qpc' = "returned" /\ squash_ret' = "err"
          \/ qpc' = "await" /\ squash_ret' = squash_ret
  /\ UNCHANGED <<before, history, squash_count, squash_dry_run, outsideSquash>>

\* auto.rs:1006-1026  generate_squash_message returns; a dry run prints the
\* message; else git::squash_commits (git.rs:1615-1657), which fails when
\* count < 2 or when the chain is too short, and may fail in git itself.
SquashAfterMessage ==
  /\ qpc = "await"
  /\ qpc' = "returned"
  /\ \E message_ok, git_ok \in BOOLEAN :
       IF ~message_ok
       THEN squash_ret' = "err" /\ history' = history
       ELSE IF squash_dry_run
            THEN squash_ret' = "ok" /\ history' = history
            ELSE IF squash_count < 2 \/ ~HasBase(history, squash_count) \/ ~git_ok
                 THEN squash_ret' = "err" /\ history' = history
                 ELSE /\ squash_ret' = "ok"
                      /\ history' = Squashed(history, squash_count)
  /\ UNCHANGED <<before, squash_count, squash_dry_run, outsideSquash>>

SquashNext == SquashEntry \/ SquashAfterMessage

SpecSquash == SquashInit /\ [][SquashNext]_vars

(***************************************************************************)
(* The thread FileWatcher::watch spawns (src/core/watcher.rs:78-106): it   *)
(* takes the debouncer's results one by one, filters the paths of a batch  *)
(* and sends WatchEvents to the loop.  A path or a pattern is the sequence *)
(* of its characters.                                                      *)
(***************************************************************************)
\* The largest number of events in one debounced batch.
MaxEvents == 2

\* watcher.rs:33-39  FileWatcher::new: ignore_patterns
ignore_patterns ==
  <<<<".", "g", "i", "t">>,
    <<"n", "o", "d", "e", "_", "m", "o", "d", "u", "l", "e", "s">>,
    <<"t", "a", "r", "g", "e", "t">>,
    <<".", "b", "a", "h", "n", ".", "l", "o", "c", "k">>,
    <<".", "b", "a", "h", "n", ".", "t", "o", "m", "l">>>>

\* The paths the debouncer reports: inside and outside the ignored places,
\* a pattern inside a longer name, and a near miss.
EventPaths ==
  {<<".", "g", "i", "t", "/", "H", "E", "A", "D">>,
   <<"x", "/", ".", "g", "i", "t", "i", "g", "n", "o", "r", "e">>,
   <<"n", "o", "d", "e", "_", "m", "o", "d", "u", "l", "e", "s", "/", "a">>,
   <<"t", "a", "r", "g", "e", "t">>,
   <<".", "b", "a", "h", "n", ".", "l", "o", "c", "k">>,
   <<".", "b", "a", "h", "n", ".", "t", "o", "m", "l">>,
   <<"s", "r", "c", "/", "m", "a", "i", "n", ".", "r", "s">>,
   <<"R", "E", "A", "D", "M", "E">>,
   <<"t", "a", "r", "g", "e", "/", "t">>}

\* DebouncedEventKind
EventKinds == {"Any", "AnyContinuous"}

DebouncedEvents == [path : EventPaths, kind : EventKinds]

\* str::contains(pattern): the pattern is a substring of the path
Contains(path_str, pattern) ==
  \E at \in 0..(Len(path_str) - Len(pattern)) :
     SubSeq(path_str, at + 1, at + Len(pattern)) = pattern

\* watcher.rs:90-93  the filter's closure, negated
Ignored(p) ==
  \E k \in DOMAIN ignore_patterns : Contains(p, ignore_patterns[k])

\* watcher.rs:86-94  events.into_iter().filter(kind == Any).map(path)
\* .filter(not ignored).collect()
RECURSIVE FilterPaths(_)
FilterPaths(evs) ==
  IF evs = <<>> THEN <<>>
  ELSE (IF evs[1].kind = "Any" /\ ~Ignored(evs[1].path)
        THEN <<evs[1].path>> ELSE <<>>) \o FilterPaths(Tail(evs))

outsideWatcher ==
  <<lockVars, watchVars, applyVars, sendVars, mergeVars, spreadVars,
    parseVars, chunkVars, squashVars, flushVars, splitVars, timesVars>>

WatcherInit ==
  /\ fpc = "recv" /\ events = <<>> /\ sent = <<>>
  /\ LockIdle /\ WatchIdle /\ ApplyIdle /\ SendIdle /\ MergeIdle
  /\ SpreadIdle /\ ParseIdle /\ ChunkIdle /\ SquashIdle
  /\ FlushIdle
  /\ SplitIdle
  /\ TimesIdle

\* The debouncer (notify_debouncer_mini) collects an event into the batch it
\* will report when debounce_duration has passed.
Debounce ==
  /\ fpc = "recv" /\ Len(events) < MaxEvents
  /\ \E e \in DebouncedEvents : events' = Append(events, e)
  /\ UNCHANGED <<fpc, sent, outsideWatcher>>

\* watcher.rs:84-98  Ok(Ok(events)): the paths are filtered and, when some are
\* left, sent as one FilesChanged
WatcherBatch ==
  /\ fpc = "recv"
  /\ LET paths == FilterPaths(events)
     IN sent' = IF paths # <<>>
                THEN <<[type |-> "FilesChanged", paths |-> paths]>>
                ELSE <<>>
  /\ fpc' = "handled"
  /\ UNCHANGED <<events, outsideWatcher>>

\* watcher.rs:99-101  Ok(Err(e)): WatchEvent::Error is sent
WatcherFailure ==
  /\ fpc = "recv" /\ events = <<>>
  /\ sent' = <<[type |-> "Error", paths |-> <<>>]>>
  /\ fpc' = "handled"
  /\ UNCHANGED <<events, outsideWatcher>>

\* watcher.rs:83-84  the loop comes back to debounce_rx.recv()
WatcherAgain ==
  /\ fpc = "handled"
  /\ fpc' = "recv" /\ events' = <<>> /\ sent' = <<>>
  /\ UNCHANGED outsideWatcher

\* watcher.rs:102-105  Err(_): the channel is closed, the thread ends
WatcherClosed ==
  /\ fpc = "recv"
  /\ fpc' = "ended"
  /\ UNCHANGED <<events, sent, outsideWatcher>>

WatcherNext ==
  Debounce \/ WatcherBatch \/ WatcherFailure \/ WatcherAgain \/ WatcherClosed

SpecWatcher == WatcherInit /\ [][WatcherNext]_vars

(***************************************************************************)
(* The content of queued commits: the "Add to batch" arm of                *)
(* run_prompt_watch_mode and the queue of run_defer_watch_mode, with the   *)
(* flush at the end of the session (src/commands/auto.rs), not in dry-run. *)
(* A change is one edit of one file; the working tree, the index, a diff   *)
(* snapshot and a commit are sets of changes.                              *)
(***************************************************************************)
\* The number of changes the user makes during the session.
NumChanges == 3

\* The largest number of queued entries.
MaxEntries == 2

Changes == 1..NumChanges

\* Two changes to a file.
FileOfChange(c) == (c + 1) \div 2

FilesOfChanges(cs) == {FileOfChange(c) : c \in cs}

CommittedChanges == UNION {log[k].changes : k \in DOMAIN log}

\* git add -A: the index takes every change of the working tree
AddAll == worktree

\* git add <file> for each file: the index takes the changes of these files
AddFiles(files) ==
  staged_changes \cup {c \in worktree : FileOfChange(c) \in files}

outsideFlush ==
  <<lockVars, watchVars, applyVars, sendVars, mergeVars, spreadVars,
    parseVars, chunkVars, squashVars, watcherVars, splitVars, timesVars>>

FlushInit ==
  /\ xpc = "loop" /\ fmode \in {"prompt", "defer"} /\ notified = FALSE
  /\ worktree = {} /\ staged_changes = {}
  /\ queued = <<>> /\ fk = 0 /\ log = <<>>
  /\ LockIdle /\ WatchIdle /\ ApplyIdle /\ SendIdle /\ MergeIdle
  /\ SpreadIdle /\ ParseIdle /\ ChunkIdle /\ SquashIdle /\ WatcherIdle
  /\ SplitIdle
  /\ TimesIdle

\* The user makes a change while the loop is running.
FlushUserEdit ==
  /\ xpc = "loop"
  /\ \E c \in Changes \ (worktree \cup CommittedChanges) :
       worktree' = worktree \cup {c}
  /\ notified' = TRUE
  /\ UNCHANGED <<xpc, fmode, staged_changes, queued, fk, log, outsideFlush>>

\* auto.rs:302-326, 402-418 and 569-587, 612-628  a batch of file changes:
\* git add -A, get_staged_changes (an empty set: continue), the message; the
\* entry keeps the staged files and diff, and reset_index empties the index
QueueEntry ==
  /\ xpc = "loop" /\ notified /\ Len(queued) < MaxEntries
  /\ AddAll # {}
  /\ queued' = Append(queued, [files |-> FilesOfChanges(AddAll), diff |-> AddAll])
  /\ staged_changes' = {}
  /\ notified' = FALSE
  /\ UNCHANGED <<xpc, fmode, worktree, fk, log, outsideFlush>>

\* auto.rs:302-326, 361-397  prompt mode, "Commit now" or "Commit with custom
\* time": git add -A, then create_commit / create_commit_at on the index
CommitNow ==
  /\ xpc = "loop" /\ notified /\ fmode = "prompt"
  /\ AddAll # {}
  /\ log' = Append(log, [changes |-> AddAll, entry |-> 0])
  /\ worktree' = {} /\ staged_changes' = {}
  /\ notified' = FALSE
  /\ UNCHANGED <<xpc, fmode, queued, fk, outsideFlush>>

\* auto.rs:324-327, 423 and 585-587  a batch that is skipped, or one with
\* nothing staged: the index is left empty
SkipBatch ==
  /\ xpc = "loop" /\ notified
  /\ staged_changes' = {}
  /\ notified' = FALSE
  /\ UNCHANGED <<xpc, fmode, worktree, queued, fk, log, outsideFlush>>

\* auto.rs:301, 447-463 and 567, 651-701  the loop ends and the user chooses
\* to create the commits; in defer mode git add -A runs once, here
FlushBegin ==
  /\ xpc = "loop" /\ queued # <<>>
  /\ xpc' = "flush" /\ fk' = 1
  /\ staged_changes' = IF fmode = "defer" THEN AddAll ELSE staged_changes
  /\ UNCHANGED <<notified, fmode, worktree, queued, log, outsideFlush>>

\* auto.rs:466-473, 512-525  prompt mode: stage_files_for_deferred(entry),
\* then create_commit / create_commit_at on the index
\* auto.rs:704-718, 755-761  defer mode: create_commit_at on the index
FlushEntry ==
  /\ xpc = "flush" /\ fk <= Len(queued)
  /\ LET idx == IF fmode = "prompt" THEN AddFiles(queued[fk].files)
                ELSE staged_changes
     IN /\ log' = Append(log, [changes |-> idx, entry |-> fk])
        /\ worktree' = worktree \ idx
  /\ staged_changes' = {}
  /\ fk' = fk + 1
  /\ UNCHANGED <<notified, xpc, fmode, queued, outsideFlush>>

\* auto.rs:541-547, 727-731  the closing line
FlushEnd ==
  /\ xpc = "flush" /\ fk > Len(queued)
  /\ xpc' = "done"
  /\ UNCHANGED <<notified, fmode, worktree, staged_changes, queued, fk, log, outsideFlush>>

FlushNext ==
  \/ FlushUserEdit \/ QueueEntry \/ CommitNow \/ SkipBatch
  \/ FlushBegin \/ FlushEntry \/ FlushEnd

SpecFlush == FlushInit /\ [][FlushNext]_vars

(***************************************************************************)
(* suggest_granular_split with parse_diff_hunks                            *)
(* (src/gitbahn-mcp/src/main.rs), on diff texts made of pieces as above.   *)
(***************************************************************************)
\* The largest number of lines of a staged diff.
MaxSplitLines == 4

\* main.rs:819-820  `let additions = 5; let deletions = 2;`
FixedAdditions == 5
FixedDeletions == 2

\* The prefixes parse_diff_hunks tests.
Plus3B == <<"+", "+", "+", BLANK, "b/">>
AtAtBlank == <<"@@", BLANK>>

\* The lines the staged diffs are made of.
SplitLinePool ==
  { Plus3B \o <<"f">>,
    <<"@@", BLANK, "-1", BLANK, "+1", BLANK, "@@">>,
    <<"@@", BLANK, "-9", BLANK, "+9", BLANK, "@@", BLANK, "fn">>,
    <<"+", "x">>,
    <<"-", "x">>,
    <<BLANK, "x">> }

\* What `git diff --cached` prints: a file's header comes first, and the lines
\* of a hunk's body follow its header.
GitWritten(ls) ==
  \A i \in DOMAIN ls :
    /\ i = 1 => StartsWith(ls[i], Plus3B)
    /\ (i > 1 /\ ~StartsWith(ls[i], Plus3B) /\ ~StartsWith(ls[i], AtAtBlank))
         => ~StartsWith(ls[i - 1], Plus3B)

SplitTexts ==
  UNION {{Text(ls) : ls \in {l \in [1..n -> SplitLinePool] : GitWritten(l)}} :
           n \in 0..MaxSplitLines}

\* main.rs:822-827  the number after '+' in the range part: the last part that
\* starts with '+' sets start_line, which is 1 without one
StartLineOf(range_part) ==
  LET parts == SelectSeq(SplitOn(range_part, BLANK), NonEmpty)
      plus == {k \in DOMAIN parts : parts[k] \in {<<"+1">>, <<"+9">>}}
  IN  IF plus = {} THEN 1
      ELSE LET last == CHOOSE k \in plus : \A j \in plus : j <= k
           IN IF parts[last] = <<"+9">> THEN 9 ELSE 1

\* main.rs:806-844  the loop over diff.lines(): a "+++ b/" line sets
\* current_file; a "@@ " line with at least two parts around "@@" pushes a
\* hunk with the fixed counts
RECURSIVE ParseDiffHunks(_, _)
ParseDiffHunks(ls, file_now) ==
  IF ls = <<>> THEN <<>>
  ELSE LET line == Head(ls)
       IN IF StartsWith(line, Plus3B)
          THEN ParseDiffHunks(Tail(ls), SubSeq(line, Len(Plus3B) + 1, Len(line)))
          ELSE IF StartsWith(line, AtAtBlank) /\ Len(SplitOn(line, "@@")) >= 2
          THEN <<[file |-> file_now,
                  start_line |-> StartLineOf(SplitOn(line, "@@")[2]),
                  additions |-> FixedAdditions,
                  deletions |-> FixedDeletions]>>
               \o ParseDiffHunks(Tail(ls), file_now)
          ELSE ParseDiffHunks(Tail(ls), file_now)

\* main.rs:393-401  one SplitGroup per hunk
GroupsOfHunks(hs) ==
  [k \in DOMAIN hs |->
     [files |-> <<hs[k].file>>,
      line_count |-> hs[k].additions + hs[k].deletions]]

outsideSplit ==
  <<lockVars, watchVars, applyVars, sendVars, mergeVars, spreadVars,
    parseVars, chunkVars, squashVars, watcherVars, flushVars, timesVars>>

SplitInit ==
  /\ hpc = "entry" /\ split_diff \in SplitTexts
  /\ split_hunks = <<>> /\ split_groups = <<>>
  /\ LockIdle /\ WatchIdle /\ ApplyIdle /\ SendIdle /\ MergeIdle
  /\ SpreadIdle /\ ParseIdle /\ ChunkIdle /\ SquashIdle /\ WatcherIdle
  /\ FlushIdle
  /\ TimesIdle

\* main.rs:383-386  an empty diff: "No staged changes to split."
\* main.rs:388-391  no hunk: "No hunks found in diff."
SplitNothing ==
  /\ hpc = "entry"
  /\ split_diff = <<>> \/ ParseDiffHunks(DiffLines(split_diff), <<>>) = <<>>
  /\ hpc' = "returned"
  /\ UNCHANGED <<split_diff, split_hunks, split_groups, outsideSplit>>

\* main.rs:388-401  the hunks are parsed and the groups are built
SplitSuggest ==
  /\ hpc = "entry"
  /\ split_diff # <<>> /\ ParseDiffHunks(DiffLines(split_diff), <<>>) # <<>>
  /\ split_hunks' = ParseDiffHunks(DiffLines(split_diff), <<>>)
  /\ split_groups' = GroupsOfHunks(split_hunks')
  /\ hpc' = "returned"
  /\ UNCHANGED <<split_diff, outsideSplit>>

SplitNext == SplitNothing \/ SplitSuggest

SpecSplit == SplitInit /\ [][SplitNext]_vars

(***************************************************************************)
(* The commit times of one run of run_atomic_commits, run_granular_commits *)
(* or run_realistic_commits (src/commands/commit.rs): the schedule is      *)
(* generated as in SpecSpread from the start time and the spread, each     *)
(* group's commit is signed with its schedule entry, and the commit of the *)
(* remaining changes with the wall clock.                                  *)
(***************************************************************************)
\* The seconds that pass, at most, while one group is applied.
MaxTick == 1

\* The largest number of groups of the plan.
MaxPlanned == 3

outsideTimes ==
  <<lockVars, watchVars, applyVars, sendVars, mergeVars, spreadVars,
    parseVars, chunkVars, squashVars, watcherVars, flushVars, splitVars>>

\* commit.rs:593-597  the start time is --start, or Local::now() without it;
\* with --start the clock stands before, at or after it
TimesInit ==
  /\ tpc = "entry"
  /\ spread \in SpreadTexts
  /\ start \in Starts
  /\ count \in 0..MaxPlanned
  /\ total_duration_secs = 0
  /\ ti = 0
  /\ current = 0
  /\ timestamps = <<>>
  /\ clock \in Starts /\ ki = 0 /\ authored = <<>>
  /\ LockIdle /\ WatchIdle /\ ApplyIdle /\ SendIdle /\ MergeIdle
  /\ ParseIdle /\ ChunkIdle /\ SquashIdle /\ WatcherIdle
  /\ FlushIdle /\ SplitIdle

\* commit.rs:599-605 with generate_spread_timestamps: the steps of SpecSpread
TimesSchedule ==
  /\ SpreadNext
  /\ UNCHANGED timesVars

\* commit.rs:607-717  one iteration of the loop: the group is skipped
\* (`continue`), or its commit is created by create_commit_at with
\* timestamps.get(i); time passes
TimesGroup ==
  /\ tpc = "returned" /\ ki < count
  /\ \E skipped \in BOOLEAN :
       authored' = IF skipped THEN authored
                   ELSE Append(authored, timestamps[ki + 1])
  /\ ki' = ki + 1
  /\ \E tick \in 0..MaxTick : clock' = clock + tick
  /\ UNCHANGED outsideTimes

\* commit.rs:721-751  after the loop: remaining changes are committed by
\* create_commit, whose signature takes the current time (git.rs:1364-1387),
\* or nothing remains (or the user declines)
TimesRemainder ==
  /\ tpc = "returned" /\ ki = count
  /\ \E remaining \in BOOLEAN :
       authored' = IF remaining THEN Append(authored, clock) ELSE authored
  /\ tpc' = "finished"
  /\ UNCHANGED <<spread, start, count, total_duration_secs, ti, current,
                 timestamps, clock, ki, lockVars, watchVars, applyVars,
                 sendVars, mergeVars, parseVars, chunkVars, squashVars,
                 watcherVars, flushVars, splitVars>>

TimesNext == TimesSchedule \/ TimesGroup \/ TimesRemainder

SpecTimes == TimesInit /\ [][TimesNext]_vars

(***************************************************************************)
(* Claims about the lock file, checked under SpecLock.                     *)
(***************************************************************************)

\* C3: mutual exclusion of the repository lock: under every interleaving of
\* the steps of LockGuard::acquire, no two processes hold a LockGuard for
\* the directory at the same time.
C3_MutualExclusion ==
  \A p \in Procs : \A q \in Procs : p # q => ~(Holds(p) /\ Holds(q))

C5_StaleLockReclaimed ==
  [][\A p \in Procs :
       /\ ( /\ lpc[p] = "probe"
            /\ ~ \E q \in Procs : alive[q] /\ ProcessId(q) = pid[p]
            /\ lpc'[p] # "probe"
            /\ alive'[p] )
          => lpc'[p] = "remove"
       /\ (lpc[p] = "write" /\ pid[p] # NoPid /\ lpc'[p] = "held")
          => ( /\ lockFile'.exists
               /\ lockFile'.bytes = PidLine(p)
               /\ LineCount(lockFile'.bytes) = 1 )
    ]_vars

\* C39: the drop of a guard deletes the lock file only when the file records
\* the pid of the guard's own process; it never deletes the file of another
\* live process that holds the lock.
C39_DropRemovesOwnLock ==
  [][\A p \in Procs :
       (lpc[p] = "held" /\ lpc'[p] = "released"
        /\ lockFile.exists /\ ~lockFile'.exists)
       => lockFile.bytes = PidLine(p)]_vars

(***************************************************************************)
(* Claims about the watch loops, checked under SpecWatch (C9 under         *)
(* SpecWatchLive).                                                         *)
(***************************************************************************)

C7_AcquireFailureBeforeMutation ==
  wpc = "lock_failed" =>
    /\ ~watching /\ chan = <<>>
    /\ ~index /\ unit = "none"
    /\ ~called /\ inFlight = 0
    /\ commit_count = 0 /\ deferred_commits = 0 /\ unpushed = 0

\* acquire failed on the lock file of a running process, with changes waiting
\* in the working tree.
C7_Witness ==
  /\ wpc = "lock_failed" /\ work
  /\ lockFile.exists /\ lockFile.bytes = PidLine(Driver + 1)

\* C8: an interrupt never aborts a unit of work that has staged and not yet
\* committed or skipped: a watch loop never returns with such a unit open.
C8_NoAbortedUnit == wpc \in Done => unit = "none"

\* C9: an interrupt delivered while a watch loop runs is eventually observed,
\* and run returns.
C9_GracefulDrainLive == interrupted ~> (wpc \in Done)

\* C10: a request to the classifier starts only when none is in flight, a call
\* starts only after the previous call (all its retries included) has
\* returned, and no event is taken from the channel while a call is
\* outstanding.
C10_OneCallInFlight ==
  [][ /\ inFlight' > inFlight => inFlight = 0
      /\ (sm'.state = "request" /\ sm'.attempt = 0 /\ inFlight' > inFlight)
           => sm.state = "idle"
      /\ sm.state # "idle" => Len(chan') >= Len(chan)
    ]_vars

\* a retry of a call is in flight while the next batch waits in the channel.
C10_Witness ==
  /\ inFlight = 1 /\ sm.state = "request" /\ sm.attempt > 0
  /\ options.mode = "event" /\ chan # <<>> /\ Head(chan) = "changed"

\* C30: in the event-driven and the polling watch mode commits_since_squash
\* always equals the number of commits the loop has created since the last
\* squash that rewrote history, or since the start.
C30_CountsRealCommits ==
  options.mode \in {"event", "polling"} =>
    commits_since_squash = since_rewrite

\* C34: in defer mode no commit is created before the watch loop has ended
\* and the closing dialogue was answered: HEAD is where it was while run has
\* not returned, a commit exists only after the user chose to create the
\* commits, and after Cancel HEAD is unchanged and nothing was created.
C34_DeferredAtSessionEnd ==
  options.mode = "defer" =>
    /\ wpc \notin Done => (unpushed = 0 /\ commit_count = 0)
    /\ (unpushed > 0 \/ commit_count > 0) => selection \in {"create", "adjust"}
    /\ selection = "cancel" => (unpushed = 0 /\ commit_count = 0)

\* Commits were queued and the user cancelled.
C34_Witness ==
  /\ options.mode = "defer" /\ ~options.dry_run
  /\ deferred_commits = 2 /\ selection = "cancel" /\ wpc = "done_ok"

(***************************************************************************)
(* Claims about the watcher thread, checked under SpecWatcher.             *)
(***************************************************************************)
\* `p` holds pattern `pat` somewhere: after some prefix and before some suffix.
Includes(p, pat) ==
  \E from \in 1..Len(p) : \E to \in from..Len(p) : SubSeq(p, from, to) = pat

IncludesIgnored(p) == \E k \in DOMAIN ignore_patterns : Includes(p, ignore_patterns[k])

\* C33: every FilesChanged batch the thread sends is non-empty and holds no
\* path that includes an ignore pattern, and a debounced batch all of whose
\* paths include one is not sent on at all.
C33_OnlyRelevantBatches ==
  /\ \A k \in DOMAIN sent :
       sent[k].type = "FilesChanged" =>
         /\ sent[k].paths # <<>>
         /\ \A n \in DOMAIN sent[k].paths : ~IncludesIgnored(sent[k].paths[n])
  /\ (fpc = "handled" /\ events # <<>>
        /\ \A n \in DOMAIN events : IncludesIgnored(events[n].path))
       => sent = <<>>

\* A batch with a path where a pattern stands inside a longer name, and one
\* with a path to keep, has been handled.
C33_Witness ==
  /\ fpc = "handled" /\ Len(events) = 2
  /\ events[1].kind = "Any" /\ events[2].kind = "Any"
  /\ IncludesIgnored(events[1].path) /\ ~StartsWith(events[1].path, ignore_patterns[1])
  /\ Includes(events[1].path, ignore_patterns[1])
  /\ ~IncludesIgnored(events[2].path)
  /\ Len(sent) = 1 /\ sent[1].type = "FilesChanged"

(***************************************************************************)
(* Claims about every way of running the auto command, checked under      *)
(* SpecAuto.                                                               *)
(***************************************************************************)
\* C32: in every watch mode (event-driven, polling, prompt, defer) the number
\* of commits one session creates never exceeds max_commits, the commits
\* created when a batch or a deferred list is flushed at the end included.
C32_MaxCommitsBound ==
  options.mode \in {"event", "polling", "prompt", "defer"} =>
    commit_count <= options.max_commits

\* C36: when the classifier call of a unit of work has failed for good (the
\* retries are used up, or the status is not retryable), the step that takes
\* the failure ends the whole auto operation, in every watch mode.
C36_FailureAborts ==
  [][(/\ options.mode \in {"event", "polling", "prompt", "defer"}
      /\ wpc = "ai_done" /\ result = "err"
      /\ sm.caller \in {"commit", "prompt", "defer"}
      /\ wpc' # wpc)
     => wpc' \in Done]_vars

\* C38: every step of the auto command that stages or commits (the index or
\* HEAD changes), in the single shot as in the four loops, is taken while the
\* lock file names the process.
C38_MutationUnderLock ==
  [][(index' # index \/ unpushed' # unpushed)
     => lockFile = [exists |-> TRUE, bytes |-> PidLine(Driver)]]_vars

(***************************************************************************)
(* Claims about the content of queued commits, checked under SpecFlush.    *)
(***************************************************************************)
\* C35: the commit created for the k-th queued entry holds exactly the changes
\* recorded for that entry and is not empty, and the changes recorded for one
\* entry are in no other entry's commit and in no commit made at once.
C35_EntryCarriesOwnChanges ==
  \A j \in DOMAIN log :
    /\ log[j].entry > 0 =>
         /\ log[j].changes = queued[log[j].entry].diff
         /\ log[j].changes # {}
    /\ \A k \in DOMAIN queued :
         k # log[j].entry => log[j].changes \cap queued[k].diff = {}

(***************************************************************************)
(* Claims about the apply loops, checked under SpecApply.                  *)
(***************************************************************************)

\* C1: for every classifier response, once the loop has run through, every
\* unit of the change set has passed the loop's filters (by file path, hunk id
\* or chunk id) exactly once over all groups: none is omitted, none is applied
\* twice.
C1_ExactlyOnce ==
  apc \in {"restore", "remainder", "done_ok"} =>
    \A u \in Units : applied[u] = 1

\* C2: whenever run_realistic_commits returns after it has started writing
\* files, with or without an error, every file has its original content.
C2_TreeIntact ==
  (strategy = "realistic" /\ apc \in {"done_ok", "done_err"}) =>
    \A f \in Files : tree[f] = Original(f)

\* A step of the apply loop: one planned group is taken and processed.
LoopStep == apc = "loop" /\ gi <= planLen

\* C25: in the atomic, granular and realistic apply loops a commit is created
\* for a planned group only if the index differs from HEAD at that moment; a
\* group after whose staging the index equals HEAD creates no commit, raises
\* no error, and the loop goes on to the next group.
C25_NoEmptyCommit ==
  [][ LoopStep =>
        /\ (created' # created) => (indexc' # head)
        /\ (outcome' # "stage_failed" /\ indexc' = head) =>
             /\ created' = created /\ head' = head
             /\ apc' = "loop" /\ gi' = gi + 1 ]_vars

\* The second group named units, staged nothing new and was passed over
\* after the first group's commit.
C25_Witness ==
  /\ apc = "loop" /\ gi = 3 /\ created = 1
  /\ outcome = "nothing_staged"
  /\ group \cap Units # {}

\* C26: the commit created for the i-th planned group carries schedule entry
\* i as its author time and as its committer time, also when earlier groups
\* were skipped; it never carries the implicit current time.
C26_ScheduledTime ==
  [][ (LoopStep /\ created' # created) =>
        /\ commit_time' = <<gi, gi>>
        /\ commit_time'[1] # ImplicitNow /\ commit_time'[2] # ImplicitNow ]_vars

\* The first group was skipped and the second group's commit, the first one
\* created, carries the second schedule entry.
C26_Witness ==
  /\ outcome = "committed" /\ created = 1 /\ gi = 3
  /\ commit_time = <<2, 2>>

\* C27: in granular mode staging the hunks of a group (patch applied to the
\* index, whole-file add, or whole-file fallback) leaves the content of every
\* working-tree file unchanged.
C27_HunkStagingIndexOnly ==
  [][ (strategy = "granular" /\ LoopStep) => tree' = tree ]_vars

\* A patch with one of the two hunks of a file was staged and committed, and
\* a whole file was staged and committed; the working tree holds both files
\* in full.
C27_Witness ==
  /\ strategy = "granular" /\ created = 2
  /\ head[1] = <<1>> /\ tree[1] = <<1, 2>>
  /\ head[2] = <<3>> /\ tree[2] = <<3>>

\* The chunks of file f in start-line order, each as often as the groups
\* processed so far applied it.
RECURSIVE Times(_, _)
Times(u, n) == IF n = 0 THEN <<>> ELSE <<u>> \o Times(u, n - 1)

RECURSIVE ChunksApplied(_, _)
ChunksApplied(us, ap) ==
  IF us = <<>> THEN <<>>
  ELSE Times(us[1], ap[us[1]]) \o ChunksApplied(Tail(us), ap)

\* C28: in realistic mode, after a planned group has been processed, the
\* working-tree content of each file affected by that group is the
\* concatenation of all chunks of that file applied by the groups so far,
\* ordered by start line whatever order the groups supplied them in.
C28_ProgressiveAccumulation ==
  [][ (strategy = "realistic" /\ LoopStep /\ gi' = gi + 1) =>
        \A f \in Files :
          (\E c \in group' :
              c \in Units /\ c \notin committed_chunks /\ FileOf(c) = f)
          => tree'[f] = ChunksApplied(Asc(UnitsOf(f)), applied') ]_vars

\* The second chunk of a file was supplied before the first one, by an
\* earlier group; the file holds them in start-line order.
C28_Witness ==
  /\ strategy = "realistic" /\ apc = "loop" /\ gi = 3 /\ created = 2
  /\ file_contents[1] = <<2, 1>>
  /\ tree[1] = <<1, 2>>

\* C29: a planned group whose references all name no unit creates no commit
\* and no error and changes nothing; no file beyond those of the resolvable
\* references of a group is staged or written; the loop goes on to the next
\* group.
C29_UnresolvableNotFatal ==
  [][ LoopStep =>
        /\ (group' \cap Units = {}) =>
             /\ outcome' = "no_valid" /\ apc' = "loop" /\ gi' = gi + 1
             /\ created' = created /\ head' = head /\ indexc' = indexc
             /\ tree' = tree /\ applied' = applied
        /\ \A f \in Files :
             (f \notin {FileOf(u) : u \in group' \cap Units}) =>
               (indexc'[f] = indexc[f] /\ tree'[f] = tree[f]) ]_vars

\* The first group resolved to nothing and was skipped; the second group
\* held an unknown reference beside a valid one and was committed.
C29_Witness ==
  /\ outcome = "committed" /\ created = 1 /\ commit_time = <<2, 2>>
  /\ 0 \in group /\ group \cap Units # {}

(***************************************************************************)
(* Claims about send_message, checked under SpecSend.                      *)
(***************************************************************************)

\* C11: a call whose first two attempts receive HTTP 429 and whose third
\* receives a success response returns that response's payload after exactly
\* three requests and exactly two backoff sleeps.
C11_RetryOnRateLimit ==
  ( /\ Len(responses) >= 3
    /\ responses[1].code = 429 /\ responses[2].code = 429
    /\ responses[3].code = 200 /\ responses[3].body # 0 )
  => /\ spc = "returned"
     /\ ret = [ok |-> TRUE, payload |-> responses[3].body]
     /\ requests = 3 /\ Len(responses) = 3
     /\ Len(sleeps) = 2

\* 429, 429, then a success: the call has returned.
C11_Witness ==
  /\ spc = "returned" /\ Len(responses) = 3
  /\ responses[1].code = 429 /\ responses[2].code = 429
  /\ responses[3].code = 200 /\ responses[3].body = 2
  /\ ret.ok /\ sleeps = <<1000, 2000>>

\* C12: when an attempt receives a status that is neither success nor 429 nor
\* 5xx, the call returns an error at once: that response is the last one, no
\* further request is sent and no further sleep happens.
C12_NonRetryableFailsAtOnce ==
  \A i \in DOMAIN responses :
    ( /\ responses[i].code # 0
      /\ ~(responses[i].code >= 200 /\ responses[i].code <= 299)
      /\ responses[i].code # 429 /\ responses[i].code < 500 )
    => /\ i = Len(responses) /\ spc = "returned"
       /\ ret = [ok |-> FALSE, err |-> "api", of |-> responses[i]]
       /\ requests = i /\ Len(sleeps) = i - 1

\* a 401 after a retried 500: the call has returned the API error.
C12_Witness ==
  /\ spc = "returned" /\ Len(responses) = 2
  /\ responses[1].code = 500 /\ responses[2].code = 401
  /\ ~ret.ok /\ requests = 2

\* C13: when every attempt fails retryably (network error, 429 or 5xx) the
\* call makes exactly MAX_RETRIES + 1 = 4 requests and 3 sleeps and then
\* returns an error that carries the last failure observed.
C13_BoundedRetry ==
  ( /\ spc = "returned"
    /\ \A i \in DOMAIN responses :
         responses[i].code = 0 \/ responses[i].code = 429
           \/ responses[i].code >= 500 )
  => /\ requests = 4 /\ Len(responses) = 4
     /\ Len(sleeps) = 3
     /\ ret = [ok |-> FALSE, err |-> "exhausted", of |-> <<responses[4]>>]

\* four retryable failures, the last unlike the ones before it.
C13_Witness ==
  /\ spc = "returned" /\ Len(responses) = 4
  /\ responses[1].code = 429 /\ responses[2].code = 0
  /\ responses[3] = [code |-> 500, body |-> 1]
  /\ responses[4] = [code |-> 500, body |-> 2]
  /\ ret.err = "exhausted"

RECURSIVE Pow2(_)
Pow2(n) == IF n = 0 THEN 1 ELSE 2 * Pow2(n - 1)

\* C23: within one send_message call the k-th backoff sleep lasts
\* min(1000 * 2^(k-1), 30000) ms, so 1000, 2000 and 4000 ms for the three
\* retries; every new call starts again at 1000 ms and no sleep is longer
\* than 30000 ms.
C23_BoundedBackoff ==
  /\ \A k \in DOMAIN sleeps :
       /\ sleeps[k] = Min(1000 * Pow2(k - 1), 30000)
       /\ sleeps[k] <= 30000
  /\ Len(sleeps) <= 3
  /\ spc = "top" /\ attempt = 0 => delay_ms = 1000

\* A second call, made after a call that slept three times, has slept 1000
\* and 2000 ms.
C23_Witness ==
  /\ calls = 2
  /\ delay_ms = 4000
  /\ sleeps = <<1000, 2000>>
  /\ spc = "await"

(***************************************************************************)
(* Claims about merge_groups_to_target, checked under SpecMerge.           *)
(***************************************************************************)
RECURSIVE Flatten(_)
Flatten(gs) ==
  IF gs = <<>> THEN <<>> ELSE Head(gs).files \o Flatten(Tail(gs))

\* C14: the call returns exactly target groups whenever len(groups) > target
\* and the groups unchanged whenever len(groups) <= target, for every group
\* list and every unsigned target, 0 included.
C14_MergeToTarget ==
  mpc \in {"returned", "panicked"} =>
    /\ mpc = "returned"
    /\ IF Len(input_groups) > target
       THEN Len(groups) = target
       ELSE groups = input_groups

\* C15: five single-unit groups merged to target 2 give exactly 2 groups, each
\* holding at least 2 of the units, whatever the line counts.
C15_FiveToTwoBalanced ==
  (mpc \in {"returned", "panicked"} /\ Len(input_groups) = 5 /\ target = 2) =>
    /\ mpc = "returned"
    /\ Len(groups) = 2
    /\ \A k \in DOMAIN groups : Len(groups[k].files) >= 2

\* C15 as amended: five single-unit groups merged to target 2 give exactly 2
\* groups that hold the five units once each, in their order, each group
\* holding at least one; each holds at least 2 when the five line counts are
\* equal and not zero.
C15_FiveToTwo ==
  (mpc \in {"returned", "panicked"} /\ Len(input_groups) = 5 /\ target = 2) =>
    /\ mpc = "returned"
    /\ Len(groups) = 2
    /\ Flatten(groups) = <<1, 2, 3, 4, 5>>
    /\ \A k \in DOMAIN groups : Len(groups[k].files) >= 1
    /\ ( /\ input_groups[1].line_count > 0
         /\ \A k \in DOMAIN input_groups :
              input_groups[k].line_count = input_groups[1].line_count )
       => \A k \in DOMAIN groups : Len(groups[k].files) >= 2

\* five groups of line counts 1, 1, 1, 1, 2 have been merged to two.
C15_Witness ==
  /\ mpc = "returned" /\ target = 2 /\ Len(input_groups) = 5
  /\ \A k \in 1..4 : input_groups[k].line_count = 1
  /\ input_groups[5].line_count = 2
  /\ Len(groups) = 2

RECURSIVE SumLineCount(_)
SumLineCount(gs) ==
  IF gs = <<>> THEN 0 ELSE Head(gs).line_count + SumLineCount(Tail(gs))

\* C24: merge_groups_to_target merges adjacent groups only and conserves
\* content: the file lists of the groups, concatenated in group order, and
\* the sum of the line counts are the same after the merge as before.
C24_MergeConserves ==
  /\ Flatten(groups) = Flatten(input_groups)
  /\ SumLineCount(groups) = SumLineCount(input_groups)

\* Four groups with line counts 2, 1, 0, 2 have been merged to two.
C24_Witness ==
  /\ mpc = "returned" /\ target = 2 /\ Len(input_groups) = 4
  /\ input_groups[1].line_count = 2 /\ input_groups[2].line_count = 1
  /\ input_groups[3].line_count = 0 /\ input_groups[4].line_count = 2
  /\ Len(groups) = 2
  /\ groups[1].files = <<1, 2, 3>>

(***************************************************************************)
(* Claims about generate_spread_timestamps, checked under SpecSpread.      *)
(***************************************************************************)
\* C16: for every count, every start and every duration parse_duration can
\* return, negative ones included, generate_spread_timestamps returns
\* exactly count timestamps, in non-decreasing order, the first one equal
\* to start (none for count 0, <<start>> for count 1).
C16_OrderedFromStart ==
  tpc = "returned" =>
    /\ Len(timestamps) = count
    /\ count >= 1 => timestamps[1] = start
    /\ \A k \in 1..(Len(timestamps) - 1) : timestamps[k] <= timestamps[k + 1]

\* C17: for count >= 2 and a duration >= 0 the last timestamp returned is
\* no later than start + duration, also where the 60-second floor of the
\* gaps alone exceeds the duration.
C17_InsideWindow ==
  (tpc = "returned" /\ count >= 2 /\ total_duration_secs >= 0) =>
    timestamps[Len(timestamps)] <= start + total_duration_secs

\* Five commits over one minute have been scheduled: the four gaps of at
\* least 60 seconds overshot the window and the vector was returned.
C17_Witness ==
  /\ tpc = "returned"
  /\ count = 5
  /\ total_duration_secs = 60
  /\ current >= start + 240
  /\ Len(timestamps) = 5

(***************************************************************************)
(* Claims about parse_diff_into_hunks, checked under SpecParse.            *)
(***************************************************************************)
\* Line i of ls lies inside a hunk: an "@@" line precedes it with no
\* "diff --git" line in between.
InsideHunk(ls, i) ==
  \E j \in 1..(i - 1) :
    /\ StartsWith(ls[j], AtAt)
    /\ \A k \in (j + 1)..i : ~StartsWith(ls[k], DiffGit)

\* The "---" and "+++" lines of a file header.
IsMarkerLine(ls, i) ==
  /\ StartsWith(ls[i], Plus3) \/ StartsWith(ls[i], Minus3)
  /\ ~InsideHunk(ls, i)

\* The lines of a diff text that start with '+' or '-' and are no marker
\* lines.
ChangedLines(d) ==
  LET ls == DiffLines(d)
  IN  Cardinality({i \in 1..Len(ls) :
                     /\ StartsWith(ls[i], <<"+">>) \/ StartsWith(ls[i], <<"-">>)
                     /\ ~IsMarkerLine(ls, i)})

RECURSIVE SumChanges(_)
SumChanges(hs) ==
  IF hs = <<>> THEN 0
  ELSE Head(hs).additions + Head(hs).deletions + SumChanges(Tail(hs))

\* A text as git writes it: a "diff --git" line first, and every line that
\* starts with '+', '-' or a blank is a line of a hunk or a marker line of
\* a file header.
GitDiff(ls) ==
  /\ ls # <<>> => StartsWith(ls[1], DiffGit)
  /\ \A i \in 1..Len(ls) :
       (StartsWith(ls[i], <<"+">>) \/ StartsWith(ls[i], <<"-">>)
          \/ StartsWith(ls[i], <<BLANK>>))
         => InsideHunk(ls, i) \/ IsMarkerLine(ls, i)

\* C18: for every diff text (here: every one that git can have written),
\* additions plus deletions summed over the hunks returned equals the
\* number of lines of the text that start with '+' or '-' and are not
\* "+++"/"---" marker lines.
C18_ChangesCounted ==
  (ppc = "returned" /\ GitDiff(DiffLines(diff))) =>
    SumChanges(hunks) = ChangedLines(diff)

OneFile(ls, X) ==
  /\ ls # <<>>
  /\ ls[1] = GitLine(X)
  /\ \A i \in 2..Len(ls) : ~StartsWith(ls[i], DiffGit)

IsRange(line) == StartsWith(line, AtAt)

\* C20: for the diff of one file X with k "@@" ranges the parser returns
\* exactly k hunks, in the order of the ranges, each with file_path X, for
\* every path X.
C20_OneFileKHunks ==
  ppc = "returned" =>
    \A X \in Paths :
      LET ls == DiffLines(diff)
          ranges == SelectSeq(ls, IsRange)
      IN  OneFile(ls, X) =>
            /\ Len(hunks) = Len(ranges)
            /\ \A i \in 1..Len(hunks) :
                 /\ hunks[i].header = ranges[i]
                 /\ hunks[i].file_path = X

\* The position in ls of the i-th "@@" line.
RECURSIVE RangeAt(_, _, _)
RangeAt(ls, i, from) ==
  IF StartsWith(ls[from], AtAt)
  THEN (IF i = 1 THEN from ELSE RangeAt(ls, i - 1, from + 1))
  ELSE RangeAt(ls, i, from + 1)

\* The position of the nearest "diff --git" line before line p, 0 if there
\* is none.
FileStart(ls, p) ==
  IF \E g \in 1..(p - 1) : StartsWith(ls[g], DiffGit)
  THEN CHOOSE g \in 1..(p - 1) :
         /\ StartsWith(ls[g], DiffGit)
         /\ \A k \in (g + 1)..(p - 1) : ~StartsWith(ls[k], DiffGit)
  ELSE 0

\* A line with the given prefix stands in the header of the file of line
\* p: after its "diff --git" line and before its first "@@" line.
InHeaderOf(ls, p, prefix) ==
  \E m \in (FileStart(ls, p) + 1)..(p - 1) :
    /\ StartsWith(ls[m], prefix)
    /\ \A k \in (FileStart(ls, p) + 1)..m : ~StartsWith(ls[k], AtAt)

\* The mode lines of a text stand in file headers only, as git writes them.
ModesInHeaders(ls) ==
  \A m \in 1..Len(ls) :
    (StartsWith(ls[m], NewFileMode) \/ StartsWith(ls[m], DeletedFileMode))
      => /\ FileStart(ls, m) > 0
         /\ \A k \in (FileStart(ls, m) + 1)..m : ~StartsWith(ls[k], AtAt)

\* The text is one new file: its "diff --git" line, a "new file mode"
\* line in the header, one "@@" line and after it added lines only.
OneNewFile(ls) ==
  /\ \E X \in Paths : OneFile(ls, X)
  /\ Len(SelectSeq(ls, IsRange)) = 1
  /\ InHeaderOf(ls, RangeAt(ls, 1, 1), NewFileMode)
  /\ \A k \in (RangeAt(ls, 1, 1) + 1)..Len(ls) : IsAddition(ls[k])

C22_ChunksPartition ==
  (cpc = "returned" /\ total_lines >= 1) =>
    /\ chunks # <<>>
    /\ chunks[1].start_line = 1
    /\ chunks[Len(chunks)].end_line = total_lines
    /\ \A k \in 1..(Len(chunks) - 1) :
         /\ chunks[k + 1].start_line = chunks[k].end_line + 1
         /\ chunks[k].start_line < chunks[k + 1].start_line

\* A Python file of 50 lines or more has been split into three chunks or
\* more.
C22_Witness ==
  /\ cpc = "returned"
  /\ ext = "py"
  /\ total_lines >= SmallFile
  /\ Len(chunks) >= 3

(***************************************************************************)
(* Claims about maybe_squash_commits, checked under SpecSquash.            *)
(***************************************************************************)

\* C31: compaction never rewrites pushed history: the last `count` commits
\* are replaced by one only when at least `count` commits are absent from the
\* upstream, and none of the commits replaced is on the upstream; when fewer
\* are unpushed, or in a dry run, the history is left unchanged.
C31_PushedHistoryKept ==
  /\ (history # before) =>
       /\ ~squash_dry_run
       /\ CountUnpushed(before) >= squash_count
       /\ \A k \in 1..squash_count : ~before[k].pushed
  /\ (squash_dry_run \/ CountUnpushed(before) < squash_count) => history = before

(***************************************************************************)
(* Claims about parse_diff_hunks, checked under SpecSplit.                 *)
(***************************************************************************)
\* The positions of the hunk headers among the lines.
HeaderPositions(ls) == {i \in DOMAIN ls : StartsWith(ls[i], AtAtBlank)}

\* The position of the k-th hunk header.
HeaderAt(ls, k) ==
  CHOOSE i \in HeaderPositions(ls) :
    Cardinality({j \in HeaderPositions(ls) : j <= i}) = k

\* The body of the hunk whose header is line i: the lines up to the next
\* hunk header or file header.
BodyOf(ls, i) ==
  LET stops == {j \in (i + 1)..Len(ls) :
                  StartsWith(ls[j], AtAt) \/ StartsWith(ls[j], Plus3)
                  \/ StartsWith(ls[j], Minus3)}
      end == IF stops = {} THEN Len(ls)
             ELSE (CHOOSE j \in stops : \A m \in stops : j <= m) - 1
  IN  SubSeq(ls, i + 1, end)

\* C37: every hunk parse_diff_hunks returns has as additions and deletions the
\* numbers of added and deleted lines of its body, and the line_count of its
\* group is their sum.
C37_CountsFromContent ==
  hpc = "returned" =>
    LET ls == DiffLines(split_diff)
    IN \A k \in DOMAIN split_hunks :
         LET body == BodyOf(ls, HeaderAt(ls, k))
             adds == Cardinality({n \in DOMAIN body : IsAddition(body[n])})
             dels == Cardinality({n \in DOMAIN body : IsDeletion(body[n])})
         IN /\ split_hunks[k].additions = adds
            /\ split_hunks[k].deletions = dels
            /\ split_groups[k].line_count = adds + dels

(***************************************************************************)
(* Claims about the commit times of a run, checked under SpecTimes.        *)
(***************************************************************************)
\* C40: with a non-negative spread the author times of the commits one run
\* creates never decrease in commit order, the commit of the remaining
\* changes included.
C40_MonotoneCommitTimes ==
  total_duration_secs >= 0 =>
    \A i \in DOMAIN authored : \A j \in DOMAIN authored :
       i < j => authored[i] <= authored[j]

====
